---- MODULE Spec2Model ----
(***************************************************************************)
(* State-machine model of the okayworld relay server (server.js) and of    *)
(* the parts of its browser client (client.js) that mirror the server's    *)
(* past-horizon computation.                                               *)
(*                                                                         *)
(* Every handler of server.js is a function from server state to server    *)
(* state (the record S below, whose field sent collects what the handler   *)
(* writes to sockets); an action of the specification unpacks the result   *)
(* of one whole handler into the variables.  Node runs handlers to         *)
(* completion, so one handler is one step.                                 *)
(***************************************************************************)
EXTENDS Integers, Sequences, FiniteSets, TLC

VARIABLES
  instances,          \* instance name -> instance object
  controllers,        \* controller ID -> controller object (the controllers table)
  liveControllers,    \* username -> controller ID
  inboxControllers,   \* username -> controller ID
  outboxControllers,  \* username -> controller ID
  nextControllerID,   \* int
  crashed,            \* an exception escaped a handler (node exits)
  users,              \* username -> user object
  statefile,          \* the contents of ./serverstate.json
  listening,          \* wsServer and httpServer accept connections
  now,                \* performance.now(), in units of one frame (1000/FPS ms)
  failing,            \* IDs of the controllers whose socket.send throws
  config,             \* general server parameters, from serverstate.json
  selfServeUserCounts, \* remote address -> number of self-serve users
  client,             \* the state of one browser client (client.js)
  wire,               \* server -> client messages not yet handled by the client
  uplink              \* client -> server messages not yet handled by the server

vars == <<instances, controllers, liveControllers, inboxControllers,
          outboxControllers, nextControllerID, crashed, users, statefile,
          listening, now, failing, config, selfServeUserCounts, client, wire,
          uplink>>

(***************************************************************************)
(* Program constants.                                                      *)
(***************************************************************************)
FPS == 30
PAST_HORIZON_FRAMES == FPS \div 2
FUTURE_HORIZON_FRAMES == (FPS * 3) \div 2

(***************************************************************************)
(* Bounds of the model.                                                    *)
(***************************************************************************)
MaxControllerID == 2   \* sockets accepted
MaxLobbyControllerID == 4   \* sockets accepted in the lobby specification
MaxFrame == 18         \* the horizon is not advanced beyond this frame
MaxEvents == 2         \* Frame/Command messages are delivered while fewer
                       \* than this many events are pending in the instance

(***************************************************************************)
(* Maps with a changing key set (JavaScript objects used as maps).         *)
(***************************************************************************)
EmptyMap == <<>>

Put(f, k, v) == [x \in (DOMAIN f) \cup {k} |-> IF x = k THEN v ELSE f[x]]

Del(f, k) == [x \in (DOMAIN f) \ {k} |-> f[x]]

(***************************************************************************)
(* JavaScript numbers as they arrive in a message: n or n + 1/2, written   *)
(* <<n, 0>> and <<n, 1>>.  Frame numbers the server computes itself are    *)
(* plain integers and are lifted with Num where they meet message values.  *)
(***************************************************************************)
Num(n) == <<n, 0>>

Half(n) == <<n, 1>>

IsInteger(x) == x[2] = 0

\* x|0 for a non-negative x
ToInt32(x) == x[1]

NumLess(x, y) == x[1] < y[1] \/ (x[1] = y[1] /\ x[2] < y[2])

NumPlus1(x) == <<x[1] + 1, x[2]>>

(***************************************************************************)
(* Users, playset and configuration loaded at start-up.                    *)
(***************************************************************************)
Usernames == {"alice", "bob"}

makePasswordHash(password) == <<"sha256", password>>

doesPasswordMatchHash(password, hashWanted) == makePasswordHash(password) = hashWanted

\* string comparison of the usernames in use
UsernameLess(a, b) == a = "alice" /\ b = "bob"

\* per-verb limit of commands per controller per frame, from getCommandLimits()
playsetCommandRateLimits == [f |-> 2]

StrLen(s) == IF s = "" THEN 0 ELSE IF s = "toolong" THEN 3 ELSE 1

playsetInputLengthLimits == 2

playsetArgumentLengthLimits == 2

\* config.hashSyncInterval of the serverstate.json the server is started with
hashSyncInterval == 17

DEFAULT_HASH_SYNC_INTERVAL == FPS * 5

(***************************************************************************)
(* The playset of the model: deterministic, and sensitive to everything    *)
(* the core passes it (the order of the lists included).  Its world holds  *)
(* the number of frames applied, who is connected, the last non-empty      *)
(* command list and the last input list.                                   *)
(***************************************************************************)
InitialGameState == [frames |-> 0, connected |-> {}, commands |-> <<>>, inputs |-> <<>>]

SeqRange(q) == {q[i] : i \in 1..Len(q)}

advanceGameState(state, connects, commands, inputs, disconnects) ==
  [frames    |-> state.frames + 1,
   connected |-> (state.connected \cup {connects[i].c : i \in 1..Len(connects)})
                   \ SeqRange(disconnects),
   commands  |-> IF commands # <<>> THEN commands ELSE state.commands,
   inputs    |-> inputs]

\* one loop of defaultPlaysetAdvanceGameState, on a playset that appends
\* each call it receives to the state
RECURSIVE CallEach(_, _, _)
CallEach(state, call, items) ==
  IF items = <<>> THEN state
  ELSE CallEach(Append(state, [call |-> call, c |-> Head(items).c]), call, Tail(items))

\* the playset has applyCommand and applyStateFrame; the calls are recorded
\* with the controller ID they are for (none for applyStateFrame)
defaultPlaysetAdvanceGameState(state, connects, commands, inputs, disconnects) ==
  CallEach(
    Append(CallEach(CallEach(CallEach(state, "applyConnect", connects),
                             "applyCommand", commands),
                    "applyControllerFrame", inputs),
           [call |-> "applyStateFrame", c |-> 0]),
    "applyDisconnect", [j \in 1..Len(disconnects) |-> [c |-> disconnects[j]]])

hashGameState(state) == <<"hash", state>>

serializeGameState(state) == <<"json", state>>

deserializeGameState(str) == str[2]

(***************************************************************************)
(* The server state a handler works on, and the null values of fields      *)
(* that JavaScript leaves undefined.                                       *)
(***************************************************************************)
undefined == "<undefined>"

ServerState ==
  [instances |-> instances, controllers |-> controllers,
   liveControllers |-> liveControllers, inboxControllers |-> inboxControllers,
   outboxControllers |-> outboxControllers,
   nextControllerID |-> nextControllerID, crashed |-> crashed,
   users |-> users, statefile |-> statefile, listening |-> listening,
   now |-> now, failing |-> failing, config |-> config,
   selfServeUserCounts |-> selfServeUserCounts, sent |-> <<>>]

InstallServer(S) ==
  /\ instances' = S.instances
  /\ controllers' = S.controllers
  /\ liveControllers' = S.liveControllers
  /\ inboxControllers' = S.inboxControllers
  /\ outboxControllers' = S.outboxControllers
  /\ nextControllerID' = S.nextControllerID
  /\ crashed' = S.crashed
  /\ users' = S.users
  /\ statefile' = S.statefile
  /\ listening' = S.listening
  /\ now' = S.now
  /\ failing' = S.failing
  /\ config' = S.config
  /\ selfServeUserCounts' = S.selfServeUserCounts

\* a handler of the server run on its own: the modelled client is not involved
Install(S) == InstallServer(S) /\ UNCHANGED <<client, wire, uplink>>

\* socket.send(JSON.stringify(m)) on controller id's socket
SocketSend(S, id, m) == [S EXCEPT !.sent = Append(@, [to |-> id, m |-> m])]

\* a send in a try block whose catch block is empty; nothing is sent on a
\* socket that socket.close() has been called on
TrySend(S, id, m) ==
  IF id \in S.failing \/ id \notin DOMAIN S.controllers \/ S.controllers[id].disconnected
  THEN S ELSE SocketSend(S, id, m)

\* a send outside any try block: the exception leaves the handler
SendOrThrow(S, id, m) ==
  IF id \in S.failing THEN [S EXCEPT !.crashed = TRUE] ELSE SocketSend(S, id, m)

RECURSIVE controllerError(_, _, _)

\* a send in a try block whose catch block calls controllerError
SendOrError(S, id, m) ==
  IF id \in S.failing THEN controllerError(S, id, "server could not send event")
  ELSE SocketSend(S, id, m)

\* the ids of a set in ascending order (the order of for..in over integer keys)
RECURSIVE Ascending(_)
Ascending(ids) ==
  IF ids = {} THEN <<>>
  ELSE LET m == CHOOSE x \in ids : \A y \in ids : x <= y
       IN <<m>> \o Ascending(ids \ {m})

(***************************************************************************)
(* Controller timeouts.                                                    *)
(***************************************************************************)
resetConnectionTimeout(S, id) ==
  IF id \in DOMAIN S.controllers
  THEN [S EXCEPT !.controllers[id].timeout = TRUE]
  ELSE S

abandonConnectionTimeout(S, id) ==
  IF id \in DOMAIN S.controllers
  THEN [S EXCEPT !.controllers[id].timeout = FALSE]
  ELSE S

(***************************************************************************)
(* Instance clock and events.                                              *)
(***************************************************************************)
getPresentFrameNumber(instance) == instance.pastHorizonFrameNumber + PAST_HORIZON_FRAMES

scheduleAdvance(S, n) ==
  IF S.instances[n].suspended THEN S
  ELSE [S EXCEPT !.instances[n].advanceTimeouts = @ + 1]

\* a variant that keeps the stored time of the past horizon
unsuspendInstance_stale(S, n) ==
  IF S.instances[n].suspended
  THEN scheduleAdvance([S EXCEPT !.instances[n].suspended = FALSE], n)
  ELSE S

\* a variant that schedules a tick whether the instance was suspended or not
unsuspendInstance_always(S, n) ==
  scheduleAdvance(
    [S EXCEPT !.instances[n].suspended = FALSE,
              !.instances[n].pastHorizonPerfTime =
                 IF S.now - PAST_HORIZON_FRAMES > @
                 THEN S.now - PAST_HORIZON_FRAMES ELSE @], n)

\* freshHorizon is now - PAST_HORIZON_FRAMES*1000/FPS
unsuspendInstance(S, n) ==
  IF S.instances[n].suspended
  THEN scheduleAdvance(
         [S EXCEPT !.instances[n].suspended = FALSE,
                   !.instances[n].pastHorizonPerfTime =
                      IF S.now - PAST_HORIZON_FRAMES > @
                      THEN S.now - PAST_HORIZON_FRAMES ELSE @], n)
  ELSE S

suspendInstance(S, n) ==
  IF ~S.instances[n].suspended
  THEN [S EXCEPT !.instances[n].suspended = TRUE]
  ELSE S

\* eventKeyOrder lists the non-integer keys of events in the order they were
\* created, which is the order for..in visits them in (after the integer keys)
addInstanceEvent(S, n, event) ==
  LET events == S.instances[n].events IN
  IF event.f \in DOMAIN events
  THEN [S EXCEPT !.instances[n].events[event.f] = Append(@, event)]
  ELSE [S EXCEPT !.instances[n].events = Put(@, event.f, <<event>>),
                 !.instances[n].eventKeyOrder =
                    IF IsInteger(event.f) THEN @ ELSE Append(@, event.f)]

subscribeControllerToBroadcasts(S, id) ==
  [S EXCEPT !.instances[S.controllers[id].instanceName].broadcastControllers = @ \cup {id}]

unsubscribeControllerFromBroadcasts(S, id) ==
  [S EXCEPT !.instances[S.controllers[id].instanceName].broadcastControllers = @ \ {id}]

\* the relayed copy of an event; the sender's copy of a Frame carries a pong t
Injected(event) == event @@ [t |-> TRUE]

\* a variant whose loop ends at the first send that fails
RECURSIVE SendEach_abort(_, _, _, _, _)
SendEach_abort(S, n, ids, event, addTimestamp) ==
  IF ids = <<>> THEN S
  ELSE IF Head(ids) \notin S.instances[n].broadcastControllers
  THEN SendEach_abort(S, n, Tail(ids), event, addTimestamp)
  ELSE IF Head(ids) \in S.failing
  THEN controllerError(S, Head(ids), "server could not send event")
  ELSE SendEach_abort(SocketSend(S, Head(ids),
                                 IF addTimestamp /\ Head(ids) = event.c
                                 THEN Injected(event) ELSE event),
                      n, Tail(ids), event, addTimestamp)

\* for(var i in instance.broadcastControllers): a subscriber deleted before
\* the loop reaches it is not visited
RECURSIVE SendEach(_, _, _, _, _)
SendEach(S, n, ids, event, addTimestamp) ==
  IF ids = <<>> THEN S
  ELSE IF Head(ids) \notin S.instances[n].broadcastControllers
  THEN SendEach(S, n, Tail(ids), event, addTimestamp)
  ELSE SendEach(SendOrError(S, Head(ids),
                            IF addTimestamp /\ Head(ids) = event.c
                            THEN Injected(event) ELSE event),
                n, Tail(ids), event, addTimestamp)

broadcastEventToInstance(S, n, event, addTimestamp) ==
  LET S1 == addInstanceEvent(S, n, event) IN
  SendEach(S1, n, Ascending(S1.instances[n].broadcastControllers), event, addTimestamp)

storeAndEchoInstanceEvent(S, n, event, addTimestamp) ==
  LET S1 == addInstanceEvent(S, n, event) IN
  IF event.c \in S1.instances[n].broadcastControllers
  THEN SendOrError(S1, event.c, IF addTimestamp THEN Injected(event) ELSE event)
  ELSE S1

\* the keys of instance.events in for..in order
EventKeys(instance) ==
  LET ints == {ToInt32(key) : key \in {x \in DOMAIN instance.events : IsInteger(x)}}
      asc == Ascending(ints)
  IN [j \in 1..Len(asc) |-> Num(asc[j])] \o instance.eventKeyOrder

RECURSIVE EventsPile(_, _)
EventsPile(events, keys) ==
  IF keys = <<>> THEN <<>>
  ELSE events[Head(keys)] \o EventsPile(events, Tail(keys))

sendInstanceSnapshot(S, id) ==
  LET instance == S.instances[S.controllers[id].instanceName] IN
  SendOrThrow(S, id,
    [k |-> "S",
     c |-> id,
     x |-> instance.pastHorizonControllerStatus,
     g |-> serializeGameState(instance.pastHorizonState),
     f |-> instance.pastHorizonFrameNumber,
     e |-> EventsPile(instance.events, EventKeys(instance))])

(***************************************************************************)
(* Global chat.                                                            *)
(***************************************************************************)
DEFAULT_MAX_CHAT_MESSAGE_LENGTH == 1024
DEFAULT_CHAT_BURST_SIZE == 5

\* config.globalChatBurstSize||DEFAULT_CHAT_BURST_SIZE
ChatBurstSize(S) ==
  IF "globalChatBurstSize" \in DOMAIN S.config /\ S.config.globalChatBurstSize # 0
  THEN S.config.globalChatBurstSize ELSE DEFAULT_CHAT_BURST_SIZE

\* config.maxChatMessageLength||DEFAULT_MAX_CHAT_MESSAGE_LENGTH
MaxChatMessageLength(S) ==
  IF "maxChatMessageLength" \in DOMAIN S.config /\ S.config.maxChatMessageLength # 0
  THEN S.config.maxChatMessageLength ELSE DEFAULT_MAX_CHAT_MESSAGE_LENGTH

\* makeControllerLive: controller.globalChatTokens=config.globalChatBurstSize||...
grantChatBurst(S, id) ==
  [S EXCEPT !.controllers[id].globalChatTokens = ChatBurstSize(S)]

RECURSIVE SendToLive(_, _, _)
SendToLive(S, ids, message) ==
  IF ids = <<>> THEN S
  ELSE SendToLive(IF S.controllers[Head(ids)].lifecycle = "live"
                  THEN TrySend(S, Head(ids), message) ELSE S,
                  Tail(ids), message)

broadcastMessageGlobally(S, message) ==
  SendToLive(S, Ascending(DOMAIN S.controllers), message)

\* setTimeout of the callback that grants one token
grantGlobalChatTokenSoon(S, id) ==
  [S EXCEPT !.controllers[id].chatTimeouts = @ + 1]

\* the callback of grantGlobalChatTokenSoon
onChatTokenTimeout(S, id) ==
  IF S.controllers[id].lifecycle = "live"
  THEN TrySend([S EXCEPT !.controllers[id].chatTimeouts = @ - 1,
                         !.controllers[id].globalChatTokens = @ + 1],
               id, [k |-> "G"])
  ELSE [S EXCEPT !.controllers[id].chatTimeouts = @ - 1]

(***************************************************************************)
(* Controller lifecycle.                                                   *)
(***************************************************************************)
\* resetConnectionTimeout, which an exception of the snapshot's send skips
resetUnlessThrown(S, id) == IF S.crashed THEN S ELSE resetConnectionTimeout(S, id)

\* a variant that does not enter the controller in liveControllers
makeControllerLive_unindexed(S, id) ==
  LET ctr == S.controllers[id]
      n == ctr.instanceName
      instanceFrameNow == getPresentFrameNumber(S.instances[n])
      S1 == [S EXCEPT !.controllers[id].lifecycle = "live",
                      !.controllers[id].lastCommandNumber = 0,
                      !.controllers[id].minFrameNumber = Num(instanceFrameNow),
                      !.controllers[id].commandRateCounters = EmptyMap]
      connectEvent == [c |-> id, u |-> ctr.username, f |-> Num(instanceFrameNow), k |-> "c"]
      S2 == broadcastEventToInstance(S1, n, connectEvent, FALSE)
      S3 == subscribeControllerToBroadcasts(S2, id)
      S4 == sendInstanceSnapshot(S3, id)
  IN resetUnlessThrown(S4, id)

\* a variant that leaves minFrameNumber at 0 instead of the present frame
makeControllerLive_stale(S, id) ==
  LET ctr == S.controllers[id]
      n == ctr.instanceName
      instanceFrameNow == getPresentFrameNumber(S.instances[n])
      S1 == [S EXCEPT !.controllers[id].lifecycle = "live",
                      !.liveControllers = Put(@, ctr.username, id),
                      !.controllers[id].lastCommandNumber = 0,
                      !.controllers[id].minFrameNumber = Num(0),
                      !.controllers[id].commandRateCounters = EmptyMap]
      connectEvent == [c |-> id, u |-> ctr.username, f |-> Num(instanceFrameNow), k |-> "c"]
      S2 == broadcastEventToInstance(S1, n, connectEvent, FALSE)
      S3 == subscribeControllerToBroadcasts(S2, id)
      S4 == sendInstanceSnapshot(S3, id)
  IN resetUnlessThrown(S4, id)

makeControllerLive(S, id) ==
  LET ctr == S.controllers[id]
      n == ctr.instanceName
      instanceFrameNow == getPresentFrameNumber(S.instances[n])
      S1 == [S EXCEPT !.controllers[id].lifecycle = "live",
                      !.liveControllers = Put(@, ctr.username, id),
                      !.controllers[id].lastCommandNumber = 0,
                      !.controllers[id].minFrameNumber = Num(instanceFrameNow),
                      !.controllers[id].commandRateCounters = EmptyMap]
      connectEvent == [c |-> id, u |-> ctr.username, f |-> Num(instanceFrameNow), k |-> "c"]
      S2 == broadcastEventToInstance(S1, n, connectEvent, FALSE)
      S3 == subscribeControllerToBroadcasts(S2, id)
      S4 == sendInstanceSnapshot(grantChatBurst(S3, id), id)
  IN resetUnlessThrown(S4, id)

\* a variant whose Disconnect event is always stamped with the present frame
leaveInstance_present(S, id) ==
  LET ctr == S.controllers[id]
      n == ctr.instanceName
      disconnectEvent == [c |-> id, f |-> Num(getPresentFrameNumber(S.instances[n])),
                          k |-> "d"]
  IN IF ctr.lifecycle = "live"
     THEN broadcastEventToInstance(
            unsubscribeControllerFromBroadcasts(
              [S EXCEPT !.controllers[id].lifecycle = "outbox",
                        !.outboxControllers = Put(@, ctr.username, id),
                        !.liveControllers = Del(@, ctr.username)], id),
            n, disconnectEvent, FALSE)
     ELSE S

\* disconnectController, for a live controller: to the outbox, with a
\* Disconnect event at the present frame or minFrameNumber
leaveInstance(S, id) ==
  LET ctr == S.controllers[id]
      n == ctr.instanceName
      present == Num(getPresentFrameNumber(S.instances[n]))
      frameNumber == IF NumLess(present, ctr.minFrameNumber)
                     THEN ctr.minFrameNumber ELSE present
      disconnectEvent == [c |-> id, f |-> frameNumber, k |-> "d"]
  IN IF ctr.lifecycle = "live"
     THEN broadcastEventToInstance(
            unsubscribeControllerFromBroadcasts(
              [S EXCEPT !.controllers[id].lifecycle = "outbox",
                        !.outboxControllers = Put(@, ctr.username, id),
                        !.liveControllers = Del(@, ctr.username)], id),
            n, disconnectEvent, FALSE)
     ELSE S

\* disconnectController: a controller that is not in the outbox leaves the
\* tables
forgetController(S, id) ==
  IF S.controllers[id].lifecycle # "outbox"
  THEN [S EXCEPT !.inboxControllers =
                    IF S.controllers[id].lifecycle = "inbox"
                    THEN Del(@, S.controllers[id].username) ELSE @,
                 !.controllers = Del(@, id)]
  ELSE S

\* controller.disconnected=true, kept for the controllers still in the table
markDisconnected(S, id) ==
  IF id \in DOMAIN S.controllers
  THEN [S EXCEPT !.controllers[id].disconnected = TRUE]
  ELSE S

disconnectController(S, id) ==
  markDisconnected(
    forgetController(abandonConnectionTimeout(leaveInstance(S, id), id), id), id)

controllerError(S, id, errorString) ==
  disconnectController(TrySend(S, id, [k |-> "E", e |-> errorString]), id)

(***************************************************************************)
(* Inbound messages.  A message is a record with the fields the client     *)
(* sent; k is its kind.                                                    *)
(***************************************************************************)
\* a variant that makes the controller LIVE without looking at outboxControllers
onLoginMessage_eager(S, id, message) ==
  LET ctr == S.controllers[id]
      instanceName == message.n
  IN
  IF ctr.lifecycle # "new"
  THEN controllerError(S, id, "client sent login message at inappropriate time")
  ELSE IF ~(message.u \in DOMAIN S.users /\
            doesPasswordMatchHash(message.p, S.users[message.u].password))
  THEN controllerError(S, id, "incorrect username/password")
  ELSE IF ~(instanceName \in DOMAIN S.instances)
  THEN controllerError(S, id, "instance name does not exist")
  ELSE IF message.u \in DOMAIN S.inboxControllers \/ message.u \in DOMAIN S.liveControllers
  THEN controllerError(S, id, "you are already logged in (check other browser tabs)")
  ELSE
    LET S1 == unsuspendInstance(S, instanceName)
        S2 == [S1 EXCEPT !.controllers[id].instanceName = instanceName,
                         !.controllers[id].username = message.u]
        S3 == SendOrThrow(S2, id, [k |-> "W"])
    IN IF S3.crashed THEN S3 ELSE makeControllerLive(S3, id)

onLoginMessage(S, id, message) ==
  LET ctr == S.controllers[id]
      instanceName == message.n
  IN
  IF ctr.lifecycle # "new"
  THEN controllerError(S, id, "client sent login message at inappropriate time")
  ELSE IF ~(message.u \in DOMAIN S.users /\
            doesPasswordMatchHash(message.p, S.users[message.u].password))
  THEN controllerError(S, id, "incorrect username/password")
  ELSE IF ~(instanceName \in DOMAIN S.instances)
  THEN controllerError(S, id, "instance name does not exist")
  ELSE IF message.u \in DOMAIN S.inboxControllers \/ message.u \in DOMAIN S.liveControllers
  THEN controllerError(S, id, "you are already logged in (check other browser tabs)")
  ELSE
    LET S1 == unsuspendInstance(S, instanceName)
        S2 == [S1 EXCEPT !.controllers[id].instanceName = instanceName,
                         !.controllers[id].username = message.u]
        S3 == SendOrThrow(S2, id, [k |-> "W"])
    IN IF S3.crashed THEN S3
       ELSE IF message.u \in DOMAIN S3.outboxControllers
       THEN abandonConnectionTimeout(
              [S3 EXCEPT !.controllers[id].lifecycle = "inbox",
                         !.inboxControllers = Put(@, message.u, id)], id)
       ELSE makeControllerLive(S3, id)

\* a variant that admits a message stamped below the past horizon frame
validateFrameOrCommandMessage_admit(S, id, message) ==
  LET ctr == S.controllers[id] IN
  IF ctr.lifecycle # "live"
  THEN [S |-> controllerError(S, id, "game message sent without a valid login"), ok |-> FALSE]
  ELSE IF ~("f" \in DOMAIN message)
  THEN [S |-> controllerError(S, id, "malformed message, no frame number"), ok |-> FALSE]
  \* message.f !== message.f|0 parses as (message.f !== message.f)|0, which is 0
  \* for every value JSON can carry
  ELSE IF message.f # message.f
  THEN [S |-> controllerError(S, id, "malformed message, non-integer frame number"), ok |-> FALSE]
  ELSE IF NumLess(Num(ToInt32(message.f)), ctr.minFrameNumber)
  THEN [S |-> controllerError(S, id, "out-of-order message"), ok |-> FALSE]
  ELSE IF ToInt32(message.f) >
            getPresentFrameNumber(S.instances[ctr.instanceName]) + FUTURE_HORIZON_FRAMES
  THEN [S |-> controllerError(S, id, "client timestamps are running too fast"), ok |-> FALSE]
  ELSE IF NumLess(message.f, Num(S.instances[ctr.instanceName].pastHorizonFrameNumber))
  THEN [S |-> S, ok |-> TRUE]
  ELSE [S |-> S, ok |-> TRUE]

\* a variant whose window ends one frame earlier
validateFrameOrCommandMessage_early(S, id, message) ==
  LET ctr == S.controllers[id] IN
  IF ctr.lifecycle # "live"
  THEN [S |-> controllerError(S, id, "game message sent without a valid login"), ok |-> FALSE]
  ELSE IF ~("f" \in DOMAIN message)
  THEN [S |-> controllerError(S, id, "malformed message, no frame number"), ok |-> FALSE]
  ELSE IF message.f # message.f
  THEN [S |-> controllerError(S, id, "malformed message, non-integer frame number"), ok |-> FALSE]
  ELSE IF NumLess(Num(ToInt32(message.f)), ctr.minFrameNumber)
  THEN [S |-> controllerError(S, id, "out-of-order message"), ok |-> FALSE]
  ELSE IF ToInt32(message.f) >=
            getPresentFrameNumber(S.instances[ctr.instanceName]) + FUTURE_HORIZON_FRAMES
  THEN [S |-> controllerError(S, id, "client timestamps are running too fast"), ok |-> FALSE]
  ELSE IF NumLess(message.f, Num(S.instances[ctr.instanceName].pastHorizonFrameNumber))
  THEN [S |-> S, ok |-> FALSE]
  ELSE [S |-> S, ok |-> TRUE]

\* the result is [S, ok]: the state after any error, and whether the message is admitted
validateFrameOrCommandMessage(S, id, message) ==
  LET ctr == S.controllers[id] IN
  IF ctr.lifecycle # "live"
  THEN [S |-> controllerError(S, id, "game message sent without a valid login"), ok |-> FALSE]
  ELSE IF ~("f" \in DOMAIN message)
  THEN [S |-> controllerError(S, id, "malformed message, no frame number"), ok |-> FALSE]
  \* message.f !== message.f|0 parses as (message.f !== message.f)|0, which is 0
  \* for every value JSON can carry
  ELSE IF message.f # message.f
  THEN [S |-> controllerError(S, id, "malformed message, non-integer frame number"), ok |-> FALSE]
  ELSE IF NumLess(Num(ToInt32(message.f)), ctr.minFrameNumber)
  THEN [S |-> controllerError(S, id, "out-of-order message"), ok |-> FALSE]
  ELSE IF ToInt32(message.f) >
            getPresentFrameNumber(S.instances[ctr.instanceName]) + FUTURE_HORIZON_FRAMES
  THEN [S |-> controllerError(S, id, "client timestamps are running too fast"), ok |-> FALSE]
  ELSE IF NumLess(message.f, Num(S.instances[ctr.instanceName].pastHorizonFrameNumber))
  THEN [S |-> S, ok |-> FALSE]
  ELSE [S |-> S, ok |-> TRUE]

\* a variant that leaves the window at the frame of the Frame event
onFrameMessage_same(S, id, message) ==
  LET v == validateFrameOrCommandMessage(S, id, message) IN
  IF ~v.ok THEN v.S
  ELSE
    LET ctr == S.controllers[id]
        inp == message.i
    IN
    IF StrLen(inp) > playsetInputLengthLimits
    THEN controllerError(S, id, "client sent too-large input message")
    ELSE
      LET S1 == [S EXCEPT !.controllers[id].minFrameNumber = message.f,
                          !.controllers[id].lastCommandNumber = 0,
                          !.controllers[id].commandRateCounters = EmptyMap]
          event == [c |-> id, f |-> message.f, k |-> "f", i |-> inp]
          S2 == IF inp # ctr.lastFrameInput
                THEN broadcastEventToInstance(
                       [S1 EXCEPT !.controllers[id].lastFrameInput = inp],
                       ctr.instanceName, event, TRUE)
                ELSE storeAndEchoInstanceEvent(S1, ctr.instanceName, event, TRUE)
      IN resetConnectionTimeout(S2, id)

onFrameMessage(S, id, message) ==
  LET v == validateFrameOrCommandMessage(S, id, message) IN
  IF ~v.ok THEN v.S
  ELSE
    LET ctr == S.controllers[id]
        inp == message.i
    IN
    IF StrLen(inp) > playsetInputLengthLimits
    THEN controllerError(S, id, "client sent too-large input message")
    ELSE
      LET S1 == [S EXCEPT !.controllers[id].minFrameNumber = NumPlus1(message.f),
                          !.controllers[id].lastCommandNumber = 0,
                          !.controllers[id].commandRateCounters = EmptyMap]
          event == [c |-> id, f |-> message.f, k |-> "f", i |-> inp]
          S2 == IF inp # ctr.lastFrameInput
                THEN broadcastEventToInstance(
                       [S1 EXCEPT !.controllers[id].lastFrameInput = inp],
                       ctr.instanceName, event, TRUE)
                ELSE storeAndEchoInstanceEvent(S1, ctr.instanceName, event, TRUE)
      IN resetConnectionTimeout(S2, id)

onCommandMessage(S, id, message) ==
  LET v == validateFrameOrCommandMessage(S, id, message) IN
  IF ~v.ok THEN v.S
  ELSE
    LET ctr == S.controllers[id]
        serial == message.s
        arg == message.a
        cmd == message.o
    IN
    IF serial = 0
    THEN controllerError(S, id, "client sent command message without serial")
    ELSE IF StrLen(arg) > playsetArgumentLengthLimits
    THEN controllerError(S, id, "client sent too-large command argument")
    ELSE IF ~(cmd \in DOMAIN playsetCommandRateLimits)
    THEN controllerError(S, id, "client sent invalid command for this playset")
    ELSE IF cmd \in DOMAIN ctr.commandRateCounters /\
            ctr.commandRateCounters[cmd] >= playsetCommandRateLimits[cmd]
    THEN controllerError(S, id, "client exceeded command rate limit")
    ELSE
      LET S1 == IF NumLess(ctr.minFrameNumber, message.f)
                THEN [S EXCEPT !.controllers[id].minFrameNumber = message.f,
                               !.controllers[id].lastCommandNumber = 0,
                               !.controllers[id].commandRateCounters = EmptyMap]
                ELSE S
          \* the error is raised, and the handler goes on: there is no return
          S2 == IF serial <= S1.controllers[id].lastCommandNumber
                THEN controllerError(S1, id, "client sent out-of-order command message")
                ELSE S1
          event == [c |-> id, f |-> message.f, k |-> "o", o |-> cmd, a |-> arg, s |-> serial]
          counters == S2.controllers[id].commandRateCounters
          S3 == [S2 EXCEPT !.controllers[id].lastCommandNumber = serial,
                           !.controllers[id].commandRateCounters =
                              IF cmd \in DOMAIN counters
                              THEN [counters EXCEPT ![cmd] = @ + 1]
                              ELSE Put(counters, cmd, 1)]
          S4 == broadcastEventToInstance(S3, ctr.instanceName, event, FALSE)
      IN resetConnectionTimeout(S4, id)

(***************************************************************************)
(* The canonical order of a frame's events, and Array.prototype.sort       *)
(* (stable) under it.  A field an event does not have reads as undefined,  *)
(* and undefined < x is false.                                             *)
(***************************************************************************)
EVENT_KIND_ORDERING == [c |-> 0, o |-> 1, f |-> 2, d |-> 3]

instanceEventComparator(a, b) ==
  LET ak == EVENT_KIND_ORDERING[a.k]
      bk == EVENT_KIND_ORDERING[b.k]
      hasU == "u" \in DOMAIN a /\ "u" \in DOMAIN b
      hasS == "s" \in DOMAIN a /\ "s" \in DOMAIN b
  IN IF ak < bk THEN -1 ELSE IF ak > bk THEN 1
     ELSE IF hasU /\ UsernameLess(a.u, b.u) THEN -1
     ELSE IF hasU /\ UsernameLess(b.u, a.u) THEN 1
     ELSE IF hasS /\ a.s < b.s THEN -1
     ELSE IF hasS /\ a.s > b.s THEN 1
     ELSE 0

RECURSIVE InsertSorted(_, _)
InsertSorted(sorted, e) ==
  IF sorted = <<>> THEN <<e>>
  ELSE LET last == sorted[Len(sorted)] IN
       IF instanceEventComparator(last, e) > 0
       THEN Append(InsertSorted(SubSeq(sorted, 1, Len(sorted) - 1), e), last)
       ELSE Append(sorted, e)

RECURSIVE SortEvents(_)
SortEvents(events) ==
  IF events = <<>> THEN <<>>
  ELSE InsertSorted(SortEvents(SubSeq(events, 1, Len(events) - 1)), events[Len(events)])

\* the decimal digits of a key of pastHorizonControllerStatus (ids below 100)
Digits(id) == IF id < 10 THEN <<id>> ELSE <<id \div 10, id % 10>>

\* a < b on two property names, which are strings
StringLess(a, b) ==
  LET da == Digits(a)
      db == Digits(b)
  IN \/ da[1] < db[1]
     \/ da[1] = db[1] /\ Len(da) < Len(db)
     \/ da[1] = db[1] /\ Len(da) = 2 /\ Len(db) = 2 /\ da[2] < db[2]

integerComparator(a, b) == IF StringLess(a, b) THEN -1 ELSE IF StringLess(b, a) THEN 1 ELSE 0

\* Object.getOwnPropertyNames(status) sorted with integerComparator
RECURSIVE SortedKeys(_)
SortedKeys(ids) ==
  IF ids = {} THEN <<>>
  ELSE LET m == CHOOSE x \in ids : \A y \in ids : integerComparator(x, y) <= 0
       IN <<m>> \o SortedKeys(ids \ {m})

(***************************************************************************)
(* advanceHorizonState.  The first loop folds the sorted events of the     *)
(* frame into the controller status; fold is [status, connects, commands,  *)
(* disconnects, thrown].                                                   *)
(***************************************************************************)
RECURSIVE FoldEvents(_, _)
FoldEvents(fold, events) ==
  IF events = <<>> \/ fold.thrown THEN fold
  ELSE
    LET e == Head(events) IN
    FoldEvents(
      IF e.k = "c"
      THEN [fold EXCEPT !.status = Put(@, e.c, [u |-> e.u, i |-> ""]),
                        !.connects = Append(@, [c |-> e.c, u |-> e.u])]
      ELSE IF e.k = "o"
      THEN [fold EXCEPT !.commands = Append(@, [c |-> e.c, o |-> e.o, a |-> e.a])]
      ELSE IF e.k = "f"
      THEN IF e.c \in DOMAIN fold.status
           THEN [fold EXCEPT !.status[e.c].i = e.i]
           ELSE [fold EXCEPT !.thrown = TRUE]   \* event order invariant violation
      ELSE [fold EXCEPT !.disconnects = Append(@, e.c)],
      Tail(events))

BuildInputs(status) ==
  LET keys == SortedKeys(DOMAIN status) IN
  [j \in 1..Len(keys) |-> [c |-> keys[j], i |-> status[keys[j]].i]]

\* the loop over the disconnects of the frame being folded in instance n
RECURSIVE FoldDisconnects(_, _, _)
FoldDisconnects(S, n, disconnects) ==
  IF disconnects = <<>> \/ S.crashed THEN S
  ELSE
    LET d == Head(disconnects)
        status == S.instances[n].pastHorizonControllerStatus
    IN
    IF ~(d \in DOMAIN status)
    THEN [S EXCEPT !.crashed = TRUE]   \* TypeError reading .u of undefined
    ELSE
      LET username == status[d].u
          S1 == IF username \in DOMAIN S.inboxControllers
                THEN makeControllerLive(
                       [S EXCEPT !.inboxControllers = Del(@, username)],
                       S.inboxControllers[username])
                ELSE S
      IN
      IF ~(username \in DOMAIN S1.outboxControllers)
      THEN [S1 EXCEPT !.crashed = TRUE]   \* TypeError reading .id of undefined
      ELSE
        FoldDisconnects(
          [S1 EXCEPT !.outboxControllers = Del(@, username),
                     !.controllers = Del(@, S1.outboxControllers[username]),
                     !.instances[n].pastHorizonControllerStatus = Del(@, d)],
          n, Tail(disconnects))

RECURSIVE SendToAll(_, _, _, _)
SendToAll(S, n, ids, msg) ==
  IF ids = <<>> THEN S
  ELSE IF Head(ids) \notin S.instances[n].broadcastControllers
  THEN SendToAll(S, n, Tail(ids), msg)
  ELSE SendToAll(SendOrError(S, Head(ids), msg), n, Tail(ids), msg)

\* advanceHorizonState up to the end of its disconnect loop.  lastAdvance is
\* a history field: what this call passed to the playset.
foldHorizonFrame(S, n) ==
  LET instance == S.instances[n]
      key == Num(instance.pastHorizonFrameNumber)
      events == IF key \in DOMAIN instance.events THEN instance.events[key] ELSE <<>>
      fold == FoldEvents([status |-> instance.pastHorizonControllerStatus,
                          connects |-> <<>>, commands |-> <<>>,
                          disconnects |-> <<>>, thrown |-> FALSE],
                         SortEvents(events))
      S1 == [S EXCEPT !.instances[n].events = Del(@, key),
                      !.instances[n].pastHorizonControllerStatus = fold.status]
  IN
  IF fold.thrown THEN [S1 EXCEPT !.crashed = TRUE]
  ELSE
    LET inputs == BuildInputs(fold.status)
        S2 == [S1 EXCEPT !.instances[n].pastHorizonState =
                 advanceGameState(@, fold.connects, fold.commands, inputs, fold.disconnects),
                         !.instances[n].lastAdvance =
                 [sorted |-> SortEvents(events),
                  connects |-> fold.connects, commands |-> fold.commands,
                  inputs |-> inputs, disconnects |-> fold.disconnects]]
    IN FoldDisconnects(S2, n, fold.disconnects)

\* the interval of hashFrame
HashSyncInterval(S) ==
  IF "hashSyncInterval" \in DOMAIN S.config
  THEN S.config.hashSyncInterval ELSE DEFAULT_HASH_SYNC_INTERVAL

\* a variant whose hash frames are those that follow a multiple of the interval
sendFrameAdvance_after(S, n) ==
  LET frame == S.instances[n].pastHorizonFrameNumber
      subscribers == Ascending(S.instances[n].broadcastControllers)
  IN
  IF frame % HashSyncInterval(S) = 1
  THEN SendToAll(S, n, subscribers,
                 [k |-> "F", h |-> hashGameState(S.instances[n].pastHorizonState),
                  f |-> frame])
  ELSE IF (4 * frame) % FPS = 0
  THEN SendToAll(S, n, subscribers, [k |-> "F", f |-> frame])
  ELSE S

\* a variant that puts the hash in no notice
sendFrameAdvance_plain(S, n) ==
  IF (4 * S.instances[n].pastHorizonFrameNumber) % FPS = 0
  THEN SendToAll(S, n, Ascending(S.instances[n].broadcastControllers),
                 [k |-> "F", f |-> S.instances[n].pastHorizonFrameNumber])
  ELSE S

\* the notice after the frame number has been raised:
\* frame % config.hashSyncInterval == 0, else
\* frame % DEFAULT_FRAME_BROADCAST_INTERVAL == 0, the interval being FPS/4
sendFrameAdvance(S, n) ==
  LET frame == S.instances[n].pastHorizonFrameNumber
      subscribers == Ascending(S.instances[n].broadcastControllers)
  IN
  IF frame % HashSyncInterval(S) = 0
  THEN SendToAll(S, n, subscribers,
                 [k |-> "F", h |-> hashGameState(S.instances[n].pastHorizonState),
                  f |-> frame])
  ELSE IF (4 * frame) % FPS = 0
  THEN SendToAll(S, n, subscribers, [k |-> "F", f |-> frame])
  ELSE S

\* a variant that raises the frame number by two
incrementHorizon_skip(S, n) ==
  IF S.crashed THEN S
  ELSE sendFrameAdvance([S EXCEPT !.instances[n].pastHorizonFrameNumber = @ + 2], n)

\* ++instance.pastHorizonFrameNumber and what follows it
incrementHorizon(S, n) ==
  IF S.crashed THEN S
  ELSE sendFrameAdvance([S EXCEPT !.instances[n].pastHorizonFrameNumber = @ + 1], n)

advanceHorizonState(S, n) == incrementHorizon(foldHorizonFrame(S, n), n)

\* a variant that leaves the time of the past horizon where it is
advancePerfTime_still(S, n) == S

\* instance.pastHorizonPerfTime+=1000/FPS, which an exception does not reach
advancePerfTime(S, n) ==
  IF S.crashed THEN S ELSE [S EXCEPT !.instances[n].pastHorizonPerfTime = @ + 1]

RECURSIVE AdvanceLoop(_, _, _)
AdvanceLoop(S, n, calls) ==
  IF calls = 0 \/ S.crashed THEN S
  ELSE AdvanceLoop(advancePerfTime(advanceHorizonState(S, n), n), n, calls - 1)

\* the end of onAdvanceTimeout, after its loop
rescheduleOrSuspend(S, n) ==
  IF S.crashed THEN S
  ELSE IF DOMAIN S.instances[n].events = {} /\ S.instances[n].broadcastControllers = {}
  THEN suspendInstance(S, n)
  ELSE scheduleAdvance(S, n)

\* the number of frames for which now >= nextFrameTime holds, nextFrameTime
\* being pastHorizonPerfTime + (PAST_HORIZON_FRAMES+1)*1000/FPS at first
CallsDue(S, n) ==
  LET nextFrameTime == S.instances[n].pastHorizonPerfTime + PAST_HORIZON_FRAMES + 1
  IN IF S.now >= nextFrameTime THEN S.now - nextFrameTime + 1 ELSE 0

onAdvanceTimeout(S, n) ==
  rescheduleOrSuspend(
    AdvanceLoop([S EXCEPT !.instances[n].advanceTimeouts = @ - 1], n, CallsDue(S, n)), n)

(***************************************************************************)
(* client.js: the state of the page before Login is clicked.  Of the       *)
(* per-frame tables gameStates and controllerStatuses the model keeps the  *)
(* entries of the past-horizon frame: advanceHorizonState always computes  *)
(* the next entry afresh from them, and the sorts that predictions apply   *)
(* to the event lists are stable, so they do not change the order the      *)
(* horizon computation sees.                                               *)
(***************************************************************************)
ClientInit ==
  [socket |-> 0,                 \* the controller ID the server gave its socket
   open |-> FALSE,               \* socket is not null
   hasSocketOpened |-> FALSE,
   playing |-> FALSE,            \* the snapshot has been handled
   ownControllerID |-> 0,
   pastHorizonFrameNumber |-> 0,
   gameState |-> InitialGameState,
   controllerStatus |-> EmptyMap,
   instanceEvents |-> EmptyMap,
   expectedFrameNumber |-> 0,
   outgoingCommandQueue |-> <<>>,
   commandRateCounters |-> EmptyMap,
   thrown |-> FALSE,             \* the horizon computation raises a TypeError
   confirmed |-> 0,              \* frameNumber of the last handleClientConfirmation
   disconnectReason |-> ""]

(***************************************************************************)
(* Start-up: loadServerState builds the instances from serverstate.json.   *)
(***************************************************************************)
\* the user table of serverstate.json: alice is an administrator
InitialUsers ==
  [u \in Usernames |-> [password |-> makePasswordHash("pw"), admin |-> u = "alice"]]

serverstate ==
  [config |-> [hashSyncInterval |-> hashSyncInterval],
   users |-> InitialUsers,
   nextControllerID |-> 1,
   instances |-> [n \in {"room"} |-> [state |-> serializeGameState(InitialGameState),
                                      controllerStatus |-> EmptyMap]]]

\* JSON.stringify and JSON.parse of the server state
JSONstringify(o) == <<"json", o>>

JSONparse(str) == str[2]

NoAdvance == [sorted |-> <<>>, connects |-> <<>>, commands |-> <<>>, inputs |-> <<>>, disconnects |-> <<>>]

\* the loop of loadServerState over the users that have a selfServeAddress
CountSelfServeUsers(table) ==
  LET selfServed == {u \in DOMAIN table : "selfServeAddress" \in DOMAIN table[u]}
      addresses == {table[u].selfServeAddress : u \in selfServed}
  IN IF addresses = {} THEN EmptyMap
     ELSE [address \in addresses |->
             Cardinality({u \in selfServed : table[u].selfServeAddress = address})]

\* t is performance.now(); PAST_HORIZON_FRAMES*FPS/1000 ms is less than one
\* unit of time
loadServerState(o, t) ==
  [instances |->
     [n \in DOMAIN o.instances |->
        [pastHorizonFrameNumber |-> 1,
         pastHorizonState |-> deserializeGameState(o.instances[n].state),
         pastHorizonPerfTime |-> t - (PAST_HORIZON_FRAMES * FPS * FPS) \div (1000 * 1000),
         pastHorizonControllerStatus |-> o.instances[n].controllerStatus,
         eventKeyOrder |-> <<>>,
         events |-> Put(EmptyMap, Num(1),
                        [j \in 1..Len(Ascending(DOMAIN o.instances[n].controllerStatus)) |->
                           [k |-> "d",
                            c |-> Ascending(DOMAIN o.instances[n].controllerStatus)[j],
                            f |-> Num(1)]]),
         broadcastControllers |-> {},
         suspended |-> TRUE,
         advanceTimeouts |-> 0,
         lastAdvance |-> NoAdvance]],
   controllers |-> EmptyMap,
   liveControllers |-> EmptyMap,
   inboxControllers |-> EmptyMap,
   outboxControllers |-> EmptyMap,
   nextControllerID |-> o.nextControllerID,
   users |-> o.users,
   config |-> IF "config" \in DOMAIN o THEN o.config ELSE EmptyMap,
   selfServeUserCounts |-> CountSelfServeUsers(o.users),
   crashed |-> FALSE,
   now |-> t,
   failing |-> {},
   sent |-> <<>>]

\* node server.js with file as ./serverstate.json; performance.now() counts
\* from the start of the process
initServer(file) ==
  loadServerState(JSONparse(file), 0) @@ [statefile |-> file, listening |-> TRUE]

\* the state after start-up with the state file o
InitFrom(o) ==
  LET S == initServer(JSONstringify(o)) IN
  /\ instances = S.instances
  /\ controllers = S.controllers
  /\ liveControllers = S.liveControllers
  /\ inboxControllers = S.inboxControllers
  /\ outboxControllers = S.outboxControllers
  /\ nextControllerID = S.nextControllerID
  /\ crashed = S.crashed
  /\ users = S.users
  /\ statefile = S.statefile
  /\ listening = S.listening
  /\ now = S.now
  /\ failing = S.failing
  /\ config = S.config
  /\ selfServeUserCounts = S.selfServeUserCounts
  /\ client = ClientInit
  /\ wire = <<>>
  /\ uplink = <<>>

Init == InitFrom(serverstate)

(***************************************************************************)
(* Socket events.                                                          *)
(***************************************************************************)
\* request.connection.remoteAddress: the sockets all come from one address
RemoteAddress == "198.51.100.7"

NewController(id) ==
  [id |-> id, lifecycle |-> "new", username |-> "", instanceName |-> "",
   minFrameNumber |-> Num(0), lastCommandNumber |-> 0,
   commandRateCounters |-> EmptyMap, lastFrameInput |-> undefined,
   timeout |-> FALSE, disconnected |-> FALSE, remoteAddress |-> RemoteAddress,
   globalChatTokens |-> 0,   \* undefined until the controller is live
   chatTimeouts |-> 0]       \* the pending timers of grantGlobalChatTokenSoon

\* a variant that does not raise nextControllerID
onSocketConnection_reuse(S) ==
  LET id == S.nextControllerID
      S1 == [S EXCEPT !.controllers = Put(@, id, NewController(id))]
  IN resetConnectionTimeout(S1, id)

onSocketConnection(S) ==
  LET id == S.nextControllerID
      S1 == [S EXCEPT !.controllers = Put(@, id, NewController(id))]
  IN [resetConnectionTimeout(S1, id) EXCEPT !.nextControllerID = @ + 1]

controllerDone(S, id, resultString) ==
  disconnectController(TrySend(S, id, [k |-> "D", d |-> resultString]), id)

serializeServerState(S) ==
  JSONstringify(
    [config |-> S.config,
     users |-> S.users,
     nextControllerID |-> S.nextControllerID,
     instances |->
       [n \in DOMAIN S.instances |->
          [state |-> serializeGameState(S.instances[n].pastHorizonState),
           controllerStatus |-> S.instances[n].pastHorizonControllerStatus]]])

(***************************************************************************)
(* Self-serve user creation.  The message carries no c, so configWanted    *)
(* is the empty string.                                                    *)
(***************************************************************************)
MIN_USERNAME_LENGTH == 3
MAX_USERNAME_LENGTH == 16
MIN_PASSWORD_LENGTH == 3
MAX_PASSWORD_LENGTH == 64

\* username.codePointAt(i) for i = 0, 1, ..., of the names a message carries
CodePoints(username) ==
  CASE username = "alice" -> <<97, 108, 105, 99, 101>>
    [] username = "bob" -> <<98, 111, 98>>
    [] username = "mallory" -> <<109, 97, 108, 108, 111, 114, 121>>
    [] username = "al" -> <<97, 108>>
    [] username = "a-b" -> <<97, 45, 98>>
    [] username = "9lives" -> <<57, 108, 105, 118, 101, 115>>

IsAlphanumeric(code) ==
  ~((code < 65 \/ code > 90) /\ (code < 97 \/ code > 122) /\ (code < 48 \/ code > 57))

validateUsername(S, id, username) ==
  LET codes == CodePoints(username)
      wrong == {i \in 1..Len(codes) :
                  ~IsAlphanumeric(codes[i]) \/ (i = 1 /\ codes[i] >= 48 /\ codes[i] <= 57)}
      first == CHOOSE i \in wrong : \A j \in wrong : i <= j
  IN
  IF Len(codes) < MIN_USERNAME_LENGTH
  THEN [S |-> controllerError(S, id, "username too short, minimum 3"), ok |-> FALSE]
  ELSE IF Len(codes) > MAX_USERNAME_LENGTH
  THEN [S |-> controllerError(S, id, "username too short, minimum 16"), ok |-> FALSE]
  ELSE IF wrong = {} THEN [S |-> S, ok |-> TRUE]
  ELSE IF ~IsAlphanumeric(codes[first])
  THEN [S |-> controllerError(S, id, "usernames must be ASCII alphanumeric"), ok |-> FALSE]
  ELSE [S |-> controllerError(S, id, "usernames may not start with a number"), ok |-> FALSE]

\* the passwords of the model are strings
validatePassword(S, id, password) ==
  IF Len(password) < MIN_PASSWORD_LENGTH
  THEN [S |-> controllerError(S, id, "password too short, minimum 3"), ok |-> FALSE]
  ELSE IF Len(password) > MAX_PASSWORD_LENGTH
  THEN [S |-> controllerError(S, id, "password too short, minimum 64"), ok |-> FALSE]
  ELSE [S |-> S, ok |-> TRUE]

\* controllerError on a controller object that an earlier call may have
\* deleted from the controllers table: its lifecycle is then "new" and
\* disconnectController finds nothing to change
controllerErrorAgain(S, id, errorString) ==
  IF id \in DOMAIN S.controllers THEN controllerError(S, id, errorString) ELSE S

controllerDoneAgain(S, id, resultString) ==
  IF id \in DOMAIN S.controllers THEN controllerDone(S, id, resultString) ELSE S

existingCount(S, address) ==
  IF address \in DOMAIN S.selfServeUserCounts THEN S.selfServeUserCounts[address] ELSE 0

\* neither controllerError of onCreateUserMessage is followed by a return
rejectUnauthorized(S, id, address) ==
  IF ~("selfServeUserLimit" \in DOMAIN S.config) \/
     existingCount(S, address) >= S.config.selfServeUserLimit
  THEN controllerError(S, id, "you are not authorized for self-serve user creation")
  ELSE S

rejectUsernameInUse(S, id, usernameWanted) ==
  IF usernameWanted \in DOMAIN S.users
  THEN controllerErrorAgain(S, id, "username already in use")
  ELSE S

createUser(S, id, usernameWanted, passwordWanted, address) ==
  controllerDoneAgain(
    [S EXCEPT !.users = Put(@, usernameWanted,
                            [password |-> makePasswordHash(passwordWanted),
                             admin |-> FALSE,
                             selfServeAddress |-> address]),
              !.selfServeUserCounts = Put(@, address, existingCount(S, address) + 1)],
    id, "user created")

\* onCreateUserMessage after validatePassword
createValidated(S, id, message, v) ==
  IF ~v.ok THEN v.S
  ELSE createUser(
         rejectUsernameInUse(
           rejectUnauthorized(S, id, S.controllers[id].remoteAddress), id, message.u),
         id, message.u, message.p, S.controllers[id].remoteAddress)

\* onCreateUserMessage after validateUsername
createNamed(S, id, message, v) ==
  IF ~v.ok THEN v.S
  ELSE createValidated(S, id, message, validatePassword(S, id, message.p))

onCreateUserMessage(S, id, message) ==
  createNamed(S, id, message, validateUsername(S, id, message.u))

\* the loop of onShutdownMessage over the IDs that were in the controllers
\* table when it started
RECURSIVE ErrorEach(_, _, _)
ErrorEach(S, controllerIDs, reason) ==
  IF controllerIDs = <<>> \/ S.crashed THEN S
  ELSE IF ~(Head(controllerIDs) \in DOMAIN S.controllers)
  THEN [S EXCEPT !.crashed = TRUE]   \* TypeError reading .lifecycle of undefined
  ELSE ErrorEach(controllerError(S, Head(controllerIDs), reason),
                 Tail(controllerIDs), reason)

\* the end of onShutdownMessage: the state is written (to STATE_FILENAME by
\* cleanShutdown only) and the servers are closed
saveAndClose(S, message) ==
  IF S.crashed THEN S
  ELSE [S EXCEPT !.statefile = IF message.k = "cleanShutdown"
                               THEN serializeServerState(S) ELSE @,
                 !.listening = FALSE]

\* controllerDone, then controllerError for every ID of the controllers table
doneAndErrorAll(S, id, reason) ==
  ErrorEach(controllerDone(S, id, "shutdown in progress"),
            Ascending(DOMAIN controllerDone(S, id, "shutdown in progress").controllers),
            reason)

onShutdownMessage(S, id, message) ==
  IF ~(message.u \in DOMAIN S.users /\
       doesPasswordMatchHash(message.p, S.users[message.u].password))
  THEN controllerError(S, id, "incorrect username/password")
  ELSE IF ~S.users[message.u].admin
  THEN controllerError(S, id, "you are not authorized to shut down the server")
  ELSE saveAndClose(doneAndErrorAll(S, id, message.r), message)

\* a variant that spends no token
onGlobalChatMessage_free(S, id, message) ==
  IF S.controllers[id].lifecycle # "live" \/ S.controllers[id].globalChatTokens = 0
  THEN controllerError(S, id, "client sent global chat too quickly")
  ELSE IF StrLen(message.m) > MaxChatMessageLength(S)
  THEN controllerError(S, id, "client sent a global chat message that was too long")
  ELSE grantGlobalChatTokenSoon(
         broadcastMessageGlobally(S,
           [k |-> "g", c |-> id, u |-> S.controllers[id].username, m |-> message.m]),
         id)

onGlobalChatMessage(S, id, message) ==
  IF S.controllers[id].lifecycle # "live" \/ S.controllers[id].globalChatTokens = 0
  THEN controllerError(S, id, "client sent global chat too quickly")
  ELSE IF StrLen(message.m) > MaxChatMessageLength(S)
  THEN controllerError(S, id, "client sent a global chat message that was too long")
  ELSE grantGlobalChatTokenSoon(
         broadcastMessageGlobally(
           [S EXCEPT !.controllers[id].globalChatTokens = @ - 1],
           [k |-> "g", c |-> id, u |-> S.controllers[id].username, m |-> message.m]),
         id)

onInboundMessage(S, id, message) ==
  IF message.k = "f" THEN onFrameMessage(S, id, message)
  ELSE IF message.k = "o" THEN onCommandMessage(S, id, message)
  ELSE IF message.k = "l" THEN onLoginMessage(S, id, message)
  ELSE IF message.k = "g" THEN onGlobalChatMessage(S, id, message)
  ELSE IF message.k = "selfServeCreateUser" THEN onCreateUserMessage(S, id, message)
  ELSE IF message.k \in {"dirtyShutdown", "cleanShutdown"}
  THEN onShutdownMessage(S, id, message)
  ELSE controllerError(S, id, "unknown message type")

\* a socket whose controller has been disconnected is ignored
Connected(id) == id \in DOMAIN controllers /\ ~controllers[id].disconnected

\* a JSON array is written [array |-> <<m1, m2, ...>>]
IsArray(message) == "array" \in DOMAIN message

\* a variant that also stops at the first element that changes nothing
RECURSIVE InboundEach_halt(_, _, _)
InboundEach_halt(S, id, list) ==
  IF list = <<>> \/ ~(id \in DOMAIN S.controllers) \/ S.controllers[id].disconnected
  THEN S
  ELSE IF onInboundMessage(S, id, Head(list)) = S THEN S
  ELSE InboundEach_halt(onInboundMessage(S, id, Head(list)), id, Tail(list))

\* the loop over an array: it stops once the controller is disconnected
RECURSIVE InboundEach(_, _, _)
InboundEach(S, id, list) ==
  IF list = <<>> \/ ~(id \in DOMAIN S.controllers) \/ S.controllers[id].disconnected
  THEN S
  ELSE InboundEach(onInboundMessage(S, id, Head(list)), id, Tail(list))

onSocketMessage(S, id, message) ==
  IF IsArray(message) THEN InboundEach(S, id, message.array)
  ELSE onInboundMessage(S, id, message)

onSocketClose(S, id) == disconnectController(S, id)

handleControllerTimeout(S, id) ==
  controllerError([S EXCEPT !.controllers[id].timeout = FALSE], id, "connection timed out")

(***************************************************************************)
(* client.js: handlers of the browser client.  C is the client state.      *)
(***************************************************************************)
handleConnectionEnd(C) == [C EXCEPT !.open = FALSE]

showDisconnectReason(C, reason) == [C EXCEPT !.disconnectReason = reason]

onErrorMessage(C, message) ==
  IF C.open THEN showDisconnectReason(handleConnectionEnd(C), message.e) ELSE C

onClientMessage(C, message) ==
  [C EXCEPT !.instanceEvents =
     IF message.f \in DOMAIN @
     THEN [@ EXCEPT ![message.f] = Append(@, message)]
     ELSE Put(@, message.f, <<message>>)]

Unacked(e) == "unacked" \in DOMAIN e

\* delete e.unacked
Acked(e) == [x \in (DOMAIN e) \ {"unacked"} |-> e[x]]

\* instanceEvents[message.f] may be undefined: reading its length then raises
\* a TypeError that ends the handler
acceptAck(C, message) ==
  IF ~(message.f \in DOMAIN C.instanceEvents) THEN C
  ELSE [C EXCEPT !.instanceEvents[message.f] =
          [j \in 1..Len(@) |->
             IF /\ Unacked(@[j])
                /\ @[j].c = message.c
                /\ @[j].k = message.k
                /\ (message.k = "f" \/ message.s = @[j].s)
             THEN Acked(@[j]) ELSE @[j]]]

\* called when the horizon frame has events
pruneUnackedEvents(C) ==
  IF C.ownControllerID \in DOMAIN C.controllerStatus
  THEN [C EXCEPT !.instanceEvents[Num(C.pastHorizonFrameNumber)] =
          SelectSeq(@, LAMBDA e : ~Unacked(e))]
  ELSE C

\* the first loop of computeGameStateGivenPrevious
RECURSIVE ClientFoldEvents(_, _)
ClientFoldEvents(fold, events) ==
  IF events = <<>> \/ fold.thrown THEN fold
  ELSE
    LET e == Head(events) IN
    ClientFoldEvents(
      IF e.k = "c"
      THEN [fold EXCEPT !.status = Put(@, e.c, [u |-> e.u, i |-> ""]),
                        !.connects = Append(@, [c |-> e.c, u |-> e.u])]
      ELSE IF e.k = "o"
      THEN [fold EXCEPT !.commands = Append(@, [c |-> e.c, o |-> e.o])]
      ELSE IF e.k = "f"
      THEN IF e.c \in DOMAIN fold.status
           THEN [fold EXCEPT !.status[e.c].i = e.i]
           ELSE [fold EXCEPT !.thrown = TRUE]   \* TypeError setting .i of undefined
      ELSE [fold EXCEPT !.disconnects = Append(@, e.c)],
      Tail(events))

RECURSIVE DelEach(_, _)
DelEach(status, disconnects) ==
  IF disconnects = <<>> THEN status
  ELSE DelEach(Del(status, Head(disconnects)), Tail(disconnects))

copyGameState(state) == deserializeGameState(serializeGameState(state))

\* computeGameStateGivenPrevious(pastHorizonFrameNumber + 1)
computeGameStateGivenPrevious(C) ==
  LET key == Num(C.pastHorizonFrameNumber)
      events == IF key \in DOMAIN C.instanceEvents THEN C.instanceEvents[key] ELSE <<>>
      fold == ClientFoldEvents([status |-> C.controllerStatus,
                                connects |-> <<>>, commands |-> <<>>,
                                disconnects |-> <<>>, thrown |-> FALSE],
                               SortEvents(events))
  IN
  IF fold.thrown THEN [C EXCEPT !.thrown = TRUE]
  ELSE [C EXCEPT !.gameState =
                    advanceGameState(copyGameState(@), fold.connects, fold.commands,
                                     BuildInputs(fold.status), fold.disconnects),
                 !.controllerStatus = DelEach(fold.status, fold.disconnects)]

\* the end of the client's advanceHorizonState, after the new state is computed
forgetHorizonFrame(C) ==
  IF C.thrown THEN C
  ELSE [C EXCEPT !.instanceEvents = Del(@, Num(C.pastHorizonFrameNumber)),
                 !.pastHorizonFrameNumber = @ + 1]

\* playset.handleClientConfirmation: a no-op by default; confirmed is a
\* history field that keeps the frame number of the call
handleClientConfirmation(C, gameState, frameNumber) ==
  [C EXCEPT !.confirmed = frameNumber]

\* the call that ends advanceHorizonState and onInitialStateMessage
confirmHorizonFrame(C) ==
  IF C.thrown THEN C
  ELSE handleClientConfirmation(C, C.gameState, C.pastHorizonFrameNumber)

\* a variant that leaves the confirmation to the end of the notice's loop
clientAdvanceHorizonState_quiet(C) ==
  forgetHorizonFrame(
    computeGameStateGivenPrevious(
      IF Num(C.pastHorizonFrameNumber) \in DOMAIN C.instanceEvents
      THEN pruneUnackedEvents(C) ELSE C))

clientAdvanceHorizonState(C) ==
  confirmHorizonFrame(
    forgetHorizonFrame(
      computeGameStateGivenPrevious(
        IF Num(C.pastHorizonFrameNumber) \in DOMAIN C.instanceEvents
        THEN pruneUnackedEvents(C) ELSE C)))

RECURSIVE ClientAdvanceLoop(_, _)
ClientAdvanceLoop(C, f) ==
  IF C.thrown \/ C.pastHorizonFrameNumber >= f THEN C
  ELSE ClientAdvanceLoop(clientAdvanceHorizonState(C), f)

\* the hash comparison that follows the loop of onFrameAdvanceMessage
compareHash(C, message) ==
  IF C.thrown THEN C
  ELSE IF "h" \in DOMAIN message /\ message.h # hashGameState(C.gameState)
  THEN showDisconnectReason(handleConnectionEnd(C), "Desynchronized from server game state.")
  ELSE C

onFrameAdvanceMessage(C, message) == compareHash(ClientAdvanceLoop(C, message.f), message)

\* the loop of onInitialStateMessage over message.e
RECURSIVE InitialEvents(_, _)
InitialEvents(C, pile) ==
  IF pile = <<>> THEN C
  ELSE InitialEvents(
         onClientMessage(
           IF Head(pile).k = "c" /\ Head(pile).c = C.ownControllerID
           THEN [C EXCEPT !.expectedFrameNumber = ToInt32(Head(pile).f)]
           ELSE C,
           Head(pile)),
         Tail(pile))

onInitialStateMessage(C, message) ==
  confirmHorizonFrame(
    InitialEvents(
      [C EXCEPT !.playing = TRUE,
                !.pastHorizonFrameNumber = message.f,
                !.gameState = deserializeGameState(message.g),
                !.controllerStatus = message.x,
                !.ownControllerID = message.c,
                !.instanceEvents = EmptyMap,
                !.outgoingCommandQueue = <<>>,
                !.commandRateCounters = EmptyMap],
      message.e))

clientOnSocketMessage(C, message) ==
  IF message.k = "E" THEN onErrorMessage(C, message)
  ELSE IF message.k = "S" THEN onInitialStateMessage(C, message)
  ELSE IF message.k = "F" THEN onFrameAdvanceMessage(C, message)
  ELSE IF message.k \in {"o", "f"} /\ message.c = C.ownControllerID
  THEN acceptAck(C, message)
  ELSE IF message.k \in {"c", "o", "f", "d"} THEN onClientMessage(C, message)
  ELSE C   \* W: only the clock estimate changes

\* id is the controller ID the server gives the new socket
onLoginClick(C, id) ==
  IF ~C.open
  THEN [C EXCEPT !.socket = id, !.open = TRUE, !.hasSocketOpened = FALSE]
  ELSE C

\* the user has entered alice, pw and room
onSocketOpen(C) ==
  [C EXCEPT !.hasSocketOpened = TRUE] @@
  [sent |-> <<[k |-> "l", u |-> "alice", p |-> "pw", n |-> "room"]>>]

\* the client's onSocketClose
onClientSocketClose(C) ==
  IF C.open THEN showDisconnectReason(handleConnectionEnd(C), "Connection closed") ELSE C

\* argString.slice(0, limit) on the strings in use
Slice(str, limit) == IF StrLen(str) > limit THEN "to" ELSE str

sendGameCommand(C, commandString, argString) ==
  IF /\ commandString \in DOMAIN playsetCommandRateLimits
     /\ \/ ~(commandString \in DOMAIN C.commandRateCounters)
        \/ C.commandRateCounters[commandString] < playsetCommandRateLimits[commandString]
  THEN [C EXCEPT !.commandRateCounters =
                    IF commandString \in DOMAIN @
                    THEN [@ EXCEPT ![commandString] = @ + 1]
                    ELSE Put(@, commandString, 1),
                 !.outgoingCommandQueue =
                    Append(@, [o |-> commandString,
                               a |-> Slice(argString, playsetArgumentLengthLimits)])]
  ELSE C

\* 's': i+1 with i a property name: the string i followed by "1", which the
\* server's message.s|0 and the comparisons of the client read as this number
ClientSerial(i) == 10 * i + 1

\* messageList of onGameFrameTimeout
MessageList(C, inp) ==
  [j \in 1..Len(C.outgoingCommandQueue) |->
     [k |-> "o", o |-> C.outgoingCommandQueue[j].o, a |-> C.outgoingCommandQueue[j].a,
      f |-> Num(C.expectedFrameNumber), s |-> ClientSerial(j - 1)]]
  \o <<[k |-> "f", f |-> Num(C.expectedFrameNumber), i |-> inp]>>

\* the loop that lists the messages just sent as the client's own, unacked
RECURSIVE InsertOwn(_, _)
InsertOwn(C, messageList) ==
  IF messageList = <<>> THEN C
  ELSE InsertOwn(
         onClientMessage(C, Head(messageList) @@
                            [c |-> C.ownControllerID, unacked |-> TRUE]),
         Tail(messageList))

\* getEstimatedGameState(n): null below the horizon frame, else the state
\* predicted for frame n, which the model names by its frame
getEstimatedGameState(C, n) ==
  IF n < C.pastHorizonFrameNumber THEN <<"null">> ELSE <<"estimate", n>>

\* playset.handleClientPrediction: a no-op by default; predicted lists the
\* calls a handler has made
handleClientPrediction(C, state, frameNumber) ==
  [C EXCEPT !.predicted = Append(@, [state |-> state, frameNumber |-> frameNumber])]

\* onGameFrameTimeout once the skipped frames are passed: expectedFrameNumber
\* is not below frame
sendExpectedFrame(C, frame, inp) ==
  IF C.expectedFrameNumber = frame
  THEN [handleClientPrediction(InsertOwn(C, MessageList(C, inp)),
                               getEstimatedGameState(C, frame), frame)
          EXCEPT !.expectedFrameNumber = @ + 1,
                 !.outgoingCommandQueue = <<>>,
                 !.commandRateCounters = EmptyMap]
       @@ [sent |-> <<[array |-> MessageList(C, inp)]>>]
  ELSE C @@ [sent |-> <<>>]

\* while(expectedFrameNumber<frame): the frames skipped over
RECURSIVE skipFrames(_, _)
skipFrames(C, frame) ==
  IF C.expectedFrameNumber < frame
  THEN skipFrames(
         [handleClientPrediction(C, getEstimatedGameState(C, C.expectedFrameNumber), frame)
            EXCEPT !.expectedFrameNumber = @ + 1],
         frame)
  ELSE C

\* frame is estimatePresentTimeFrameNumber(), inp is getCurrentInputString()
onGameFrameTimeout(C, frame, inp) ==
  sendExpectedFrame(skipFrames(C @@ [predicted |-> <<>>], frame),
                    frame, Slice(inp, playsetInputLengthLimits))

(***************************************************************************)
(* What clients may send.  Frame numbers are taken around the values the   *)
(* validator compares with.                                                *)
(***************************************************************************)
InstanceOf(id) == instances[controllers[id].instanceName]

Pending(n) ==
  LET ev == instances[n].events
      Count(q) == Cardinality({j \in 1..Len(q) : q[j].k \in {"f", "o"}})
      RECURSIVE Sum(_)
      Sum(keys) == IF keys = {} THEN 0
                   ELSE LET key == CHOOSE x \in keys : TRUE
                        IN Count(ev[key]) + Sum(keys \ {key})
  IN Sum(DOMAIN ev)

\* a command is stamped with the frame its sender is in
CommandFrameNumbers(id) ==
  IF controllers[id].lifecycle # "live" THEN {Num(1)}
  ELSE {controllers[id].minFrameNumber}

FrameNumbers(id) ==
  IF controllers[id].lifecycle # "live" THEN {Num(1)}
  ELSE LET past == InstanceOf(id).pastHorizonFrameNumber
           present == getPresentFrameNumber(InstanceOf(id))
           min == controllers[id].minFrameNumber
       IN {Num(past - 1), Num(past), min, Half(ToInt32(min)),
           Num(present + FUTURE_HORIZON_FRAMES + 1)}

Room(id) == controllers[id].lifecycle = "live" => Pending(controllers[id].instanceName) < MaxEvents

InputStrings == {"a", "toolong"}

Serials == {0, 1, 2}

CommandStrings == {"f", "bogus"}

LoginNames == Usernames \cup {"mallory"}

Passwords == {"pw", "bad"}

InstanceChoices == (DOMAIN instances) \cup {"nowhere"}

(***************************************************************************)
(* Actions: one per handler.                                               *)
(***************************************************************************)
AcceptSocket(max) ==
  /\ ~crashed
  /\ listening
  /\ nextControllerID <= max
  /\ Install(onSocketConnection(ServerState))

SocketConnection == AcceptSocket(MaxControllerID)

\* a socket of the lobby specification, whose clients log in and leave but
\* send no game messages
LobbyConnection == AcceptSocket(MaxLobbyControllerID)

LoginMessage ==
  \E id \in DOMAIN controllers, u \in LoginNames, p \in Passwords, n \in InstanceChoices :
    /\ ~crashed
    /\ Connected(id)
    /\ Install(onSocketMessage(ServerState, id, [k |-> "l", u |-> u, p |-> p, n |-> n]))

FrameMessage ==
  \E id \in DOMAIN controllers :
    /\ ~crashed
    /\ Connected(id)
    /\ Room(id)
    /\ \E f \in FrameNumbers(id), i \in InputStrings :
         Install(onSocketMessage(ServerState, id, [k |-> "f", f |-> f, i |-> i]))

CommandMessage ==
  \E id \in DOMAIN controllers :
    /\ ~crashed
    /\ Connected(id)
    /\ Room(id)
    /\ \E f \in CommandFrameNumbers(id), s \in Serials, o \in CommandStrings :
         Install(onSocketMessage(ServerState, id,
                                 [k |-> "o", f |-> f, s |-> s, o |-> o, a |-> ""]))

SocketClose ==
  \E id \in DOMAIN controllers :
    /\ ~crashed
    /\ Connected(id)
    /\ Install(onSocketClose(ServerState, id))

ControllerTimeout ==
  \E id \in DOMAIN controllers :
    /\ ~crashed
    /\ controllers[id].timeout
    /\ Install(handleControllerTimeout(ServerState, id))

\* The timer callback runs late while the instance is idle: the frames before
\* the next frame that holds events are then caught up by one callback, whose
\* loop runs once for each frame that has come due.
FramesDue(n) ==
  LET past == instances[n].pastHorizonFrameNumber
      ev == instances[n].events
      held == {ToInt32(key) : key \in {x \in DOMAIN ev : IsInteger(x) /\ ev[x] # <<>>}}
      ahead == {g \in held : g > past}
  IN IF past \in held \/ ahead = {} THEN 1
     ELSE (CHOOSE g \in ahead : \A h \in ahead : g <= h) - past

\* the server state at the time the callback finds calls frames due
AtTimeOfCalls(n, calls) ==
  [ServerState EXCEPT !.now = instances[n].pastHorizonPerfTime + PAST_HORIZON_FRAMES + calls]

AdvanceUpTo(max) ==
  \E n \in DOMAIN instances :
    /\ ~crashed
    /\ instances[n].advanceTimeouts > 0
    /\ instances[n].pastHorizonFrameNumber + FramesDue(n) <= max
    /\ Install(onAdvanceTimeout(AtTimeOfCalls(n, FramesDue(n)), n))

AdvanceTimeout == AdvanceUpTo(MaxFrame)

Next ==
  \/ SocketConnection
  \/ LoginMessage
  \/ FrameMessage
  \/ CommandMessage
  \/ SocketClose
  \/ ControllerTimeout
  \/ AdvanceTimeout

Spec == Init /\ [][Next]_vars

LobbyNext ==
  \/ LobbyConnection
  \/ LoginMessage
  \/ SocketClose
  \/ ControllerTimeout
  \/ AdvanceTimeout

LobbySpec == Init /\ [][LobbyNext]_vars

(***************************************************************************)
(* The server together with one browser client.  The client's socket and   *)
(* the sockets of its peers are served by the same handlers; what the      *)
(* server writes to the client's socket is queued in wire, and what the    *)
(* client writes is queued in uplink.  A peer is a client whose own state  *)
(* is not modelled: it sends what a client sends.                          *)
(***************************************************************************)
MaxClientFrame == 17   \* the horizon is not advanced beyond this frame
MaxClientSend == 16    \* the client sends no frame after this one

serverVars == <<instances, controllers, liveControllers, inboxControllers,
                outboxControllers, nextControllerID, crashed, users, statefile,
                listening, now, failing, config, selfServeUserCounts>>

\* the messages a handler wrote to the client's socket
ToClient(S) ==
  LET mine == SelectSeq(S.sent, LAMBDA x : x.to = client.socket)
  IN [j \in 1..Len(mine) |-> mine[j].m]

\* a handler of the server, and the delivery of what it wrote to the client
Relay(S) ==
  /\ InstallServer(S)
  /\ wire' = IF client.open THEN wire \o ToClient(S) ELSE wire

\* the client state without the transient field sent
Strip(R) == [x \in DOMAIN client |-> R[x]]

IsPeer(id) == id \in DOMAIN controllers /\ id # client.socket /\ Connected(id)

\* new WebSocket(url) in onLoginClick, and the server's connection handler
LoginClick ==
  /\ ~crashed
  /\ listening
  /\ ~client.open
  /\ client.socket = 0
  /\ nextControllerID <= MaxControllerID
  /\ InstallServer(onSocketConnection(ServerState))
  /\ client' = onLoginClick(client, nextControllerID)
  /\ UNCHANGED <<wire, uplink>>

ClientSocketOpen ==
  /\ client.open
  /\ ~client.hasSocketOpened
  /\ client' = Strip(onSocketOpen(client))
  /\ uplink' = uplink \o onSocketOpen(client).sent
  /\ UNCHANGED <<serverVars, wire>>

PeerConnection ==
  /\ ~crashed
  /\ listening
  /\ nextControllerID <= MaxControllerID
  /\ Relay(onSocketConnection(ServerState))
  /\ UNCHANGED <<client, uplink>>

PeerLogin ==
  \E id \in DOMAIN controllers, u \in Usernames :
    /\ ~crashed
    /\ IsPeer(id)
    /\ Relay(onSocketMessage(ServerState, id, [k |-> "l", u |-> u, p |-> "pw", n |-> "room"]))
    /\ UNCHANGED <<client, uplink>>

PeerCommand ==
  \E id \in DOMAIN controllers :
    /\ ~crashed
    /\ IsPeer(id)
    /\ controllers[id].lifecycle = "live"
    /\ Room(id)
    /\ Relay(onSocketMessage(ServerState, id,
               [array |-> <<[k |-> "o", f |-> controllers[id].minFrameNumber,
                             s |-> ClientSerial(0), o |-> "f", a |-> ""]>>]))
    /\ UNCHANGED <<client, uplink>>

PeerFrame ==
  \E id \in DOMAIN controllers :
    /\ ~crashed
    /\ IsPeer(id)
    /\ controllers[id].lifecycle = "live"
    /\ Room(id)
    /\ Relay(onSocketMessage(ServerState, id,
               [array |-> <<[k |-> "f", f |-> controllers[id].minFrameNumber,
                             i |-> "a"]>>]))
    /\ UNCHANGED <<client, uplink>>

PeerClose ==
  \E id \in DOMAIN controllers :
    /\ ~crashed
    /\ IsPeer(id)
    /\ Relay(onSocketClose(ServerState, id))
    /\ UNCHANGED <<client, uplink>>

\* the server handles the next message of the client's socket
ServerReceive ==
  /\ ~crashed
  /\ uplink # <<>>
  /\ uplink' = Tail(uplink)
  /\ IF Connected(client.socket)
     THEN Relay(onSocketMessage(ServerState, client.socket, Head(uplink)))
     ELSE UNCHANGED <<serverVars, wire>>
  /\ UNCHANGED client

HorizonTimeout ==
  \E n \in DOMAIN instances :
    /\ ~crashed
    /\ instances[n].advanceTimeouts > 0
    /\ instances[n].pastHorizonFrameNumber + FramesDue(n) <= MaxClientFrame
    /\ Relay(onAdvanceTimeout(AtTimeOfCalls(n, FramesDue(n)), n))
    /\ UNCHANGED <<client, uplink>>

\* the client handles the next message of its socket; a closed socket
\* delivers nothing more
ClientReceive ==
  /\ client.open
  /\ wire # <<>>
  /\ client' = clientOnSocketMessage(client, Head(wire))
  /\ wire' = IF client'.open THEN Tail(wire) ELSE <<>>
  /\ UNCHANGED <<serverVars, uplink>>

\* the playset's user interface issues a command
ClientCommand ==
  /\ client.open
  /\ client.playing
  /\ client' = sendGameCommand(client, "f", "")
  /\ client' # client
  /\ UNCHANGED <<serverVars, wire, uplink>>

ClientFrameTimeout ==
  \E frame \in {client.expectedFrameNumber, client.expectedFrameNumber + 1} :
    /\ client.open
    /\ client.playing
    /\ frame >= client.pastHorizonFrameNumber
    /\ frame <= MaxClientSend
    /\ client' = Strip(onGameFrameTimeout(client, frame, "a"))
    /\ uplink' = uplink \o onGameFrameTimeout(client, frame, "a").sent
    /\ UNCHANGED <<serverVars, wire>>

\* the server sees the close of the socket the client has closed
ClientSocketClosed ==
  /\ ~crashed
  /\ client.socket # 0
  /\ ~client.open
  /\ Connected(client.socket)
  /\ InstallServer(onSocketClose(ServerState, client.socket))
  /\ UNCHANGED <<client, wire, uplink>>

ClientNext ==
  \/ LoginClick
  \/ ClientSocketOpen
  \/ PeerConnection
  \/ PeerLogin
  \/ PeerCommand
  \/ PeerFrame
  \/ PeerClose
  \/ ServerReceive
  \/ HorizonTimeout
  \/ ClientReceive
  \/ ClientCommand
  \/ ClientFrameTimeout
  \/ ClientSocketClosed

ClientSpec == Init /\ [][ClientNext]_vars

(***************************************************************************)
(* The server across shutdowns and restarts.  The state file it starts     *)
(* from was saved by a run that had accepted eight sockets.  After a       *)
(* shutdown message the process no longer accepts sockets, and its timers  *)
(* run on until it is started again; a restart loads ./serverstate.json.   *)
(***************************************************************************)
MaxRestartControllerID == 11   \* sockets are accepted up to this ID

savedstate == [serverstate EXCEPT !.nextControllerID = 9]

RestartConnection == AcceptSocket(MaxRestartControllerID)

ShutdownMessage ==
  \E id \in DOMAIN controllers, u \in Usernames,
     kind \in {"cleanShutdown", "dirtyShutdown"} :
    /\ ~crashed
    /\ Connected(id)
    /\ Install(onSocketMessage(ServerState, id,
                               [k |-> kind, u |-> u, p |-> "pw", r |-> "maintenance"]))

\* the process has exited or is stopped, and is started again
Restart ==
  /\ crashed \/ ~listening
  /\ Install(initServer(statefile))

RestartInit == InitFrom(savedstate)

RestartNext ==
  \/ RestartConnection
  \/ LoginMessage
  \/ SocketClose
  \/ ShutdownMessage
  \/ AdvanceTimeout
  \/ Restart

RestartSpec == RestartInit /\ [][RestartNext]_vars

(***************************************************************************)
(* The server under its clock: time passes in steps of one frame, and the  *)
(* timer callback of an instance runs at or after the time scheduleAdvance *)
(* asked for, however late.                                                *)
(***************************************************************************)
MaxNow == 36   \* the clock is not advanced beyond this time
MaxLate == 1   \* a timer callback runs at most this long after it is due

TimePasses ==
  /\ ~crashed
  /\ now < MaxNow
  /\ \A n \in DOMAIN instances :
       instances[n].advanceTimeouts > 0 =>
         now < instances[n].pastHorizonPerfTime + PAST_HORIZON_FRAMES + 1 + MaxLate
  /\ Install([ServerState EXCEPT !.now = @ + 1])

\* one user logs in to the room, with either password
ClockLogin ==
  \E id \in DOMAIN controllers, p \in Passwords :
    /\ ~crashed
    /\ Connected(id)
    /\ Install(onSocketMessage(ServerState, id, [k |-> "l", u |-> "alice", p |-> p, n |-> "room"]))

ClockTimeout ==
  \E n \in DOMAIN instances :
    /\ ~crashed
    /\ instances[n].advanceTimeouts > 0
    /\ now >= instances[n].pastHorizonPerfTime + PAST_HORIZON_FRAMES + 1
    /\ Install(onAdvanceTimeout(ServerState, n))

ClockNext ==
  \/ SocketConnection
  \/ ClockLogin
  \/ SocketClose
  \/ TimePasses
  \/ ClockTimeout

ClockSpec == Init /\ [][ClockNext]_vars

(***************************************************************************)
(* The server with sockets whose send throws: a socket starts to fail at   *)
(* any time while it is connected, and fails from then on.                 *)
(***************************************************************************)
SocketFailure ==
  \E id \in DOMAIN controllers :
    /\ ~crashed
    /\ Connected(id)
    /\ id \notin failing
    /\ Install([ServerState EXCEPT !.failing = @ \cup {id}])

FaultNext ==
  \/ SocketConnection
  \/ LoginMessage
  \/ CommandMessage
  \/ SocketClose
  \/ AdvanceTimeout
  \/ SocketFailure

FaultSpec == Init /\ [][FaultNext]_vars

(***************************************************************************)
(* The server with self-serve user creation allowed once per address.      *)
(***************************************************************************)
MaxAccountControllerID == 3   \* sockets are accepted up to this ID

accountstate == [serverstate EXCEPT !.config = [selfServeUserLimit |-> 1] @@ @]

WantedNames == {"alice", "mallory", "al", "a-b", "9lives"}

CreateUserMessages ==
  {[k |-> "selfServeCreateUser", u |-> u, p |-> p] : u \in WantedNames, p \in Passwords}

CreateUserMessage ==
  \E id \in DOMAIN controllers, m \in CreateUserMessages :
    /\ ~crashed
    /\ Connected(id)
    /\ Install(onSocketMessage(ServerState, id, m))

AccountInit == InitFrom(accountstate)

AccountConnection == AcceptSocket(MaxAccountControllerID)

AccountNext ==
  \/ AccountConnection
  \/ CreateUserMessage
  \/ LoginMessage
  \/ SocketClose

AccountSpec == AccountInit /\ [][AccountNext]_vars

(***************************************************************************)
(* The server run two frames further, so that the frames after a           *)
(* controller's last event are advanced through as well.                   *)
(***************************************************************************)
MaxPlaysetFrame == 19   \* the horizon is not advanced beyond this frame

PlaysetAdvance == AdvanceUpTo(MaxPlaysetFrame)

\* the users log in to the room with their passwords
RoomLogin ==
  \E id \in DOMAIN controllers, u \in Usernames :
    /\ ~crashed
    /\ Connected(id)
    /\ Install(onSocketMessage(ServerState, id, [k |-> "l", u |-> u, p |-> "pw", n |-> "room"]))

PlaysetNext ==
  \/ SocketConnection
  \/ RoomLogin
  \/ FrameMessage
  \/ CommandMessage
  \/ SocketClose
  \/ PlaysetAdvance

PlaysetSpec == Init /\ [][PlaysetNext]_vars

(***************************************************************************)
(* The server started with config.hashSyncInterval = 5.                    *)
(***************************************************************************)
MaxHashFrame == 8   \* the horizon is not advanced beyond this frame

hashstate == [serverstate EXCEPT !.config = [hashSyncInterval |-> 5]]

HashInit == InitFrom(hashstate)

\* the advance timer fires when one frame is due
HashAdvance ==
  \E n \in DOMAIN instances :
    /\ ~crashed
    /\ instances[n].advanceTimeouts > 0
    /\ instances[n].pastHorizonFrameNumber < MaxHashFrame
    /\ Install(onAdvanceTimeout(AtTimeOfCalls(n, 1), n))

HashNext ==
  \/ SocketConnection
  \/ RoomLogin
  \/ FrameMessage
  \/ CommandMessage
  \/ SocketClose
  \/ HashAdvance

HashSpec == HashInit /\ [][HashNext]_vars

(***************************************************************************)
(* Controllers whose input changes from frame to frame.                    *)
(***************************************************************************)
MaxRelayFrame == 19   \* the horizon is not advanced beyond this frame

\* what getCurrentInputString() of the playset returns in the clients
RelayInputs == {"a", "b"}

InputMessage ==
  \E id \in DOMAIN controllers :
    /\ ~crashed
    /\ Connected(id)
    /\ Room(id)
    /\ \E f \in FrameNumbers(id), i \in RelayInputs :
         Install(onSocketMessage(ServerState, id, [k |-> "f", f |-> f, i |-> i]))

RelayAdvance == AdvanceUpTo(MaxRelayFrame)

RelayNext ==
  \/ SocketConnection
  \/ RoomLogin
  \/ InputMessage
  \/ SocketClose
  \/ RelayAdvance

RelaySpec == Init /\ [][RelayNext]_vars

(***************************************************************************)
(* The server with two instances, and one user who moves between them.     *)
(***************************************************************************)
MaxRoomsControllerID == 3   \* sockets are accepted up to this ID
MaxRoomsFrame == 18         \* the horizon is not advanced beyond this frame

roomsstate ==
  [serverstate EXCEPT !.instances =
     [n \in {"room", "hall"} |-> [state |-> serializeGameState(InitialGameState),
                                  controllerStatus |-> EmptyMap]]]

RoomsInit == InitFrom(roomsstate)

RoomsConnection == AcceptSocket(MaxRoomsControllerID)

RoomsLogin ==
  \E id \in DOMAIN controllers, n \in DOMAIN instances :
    /\ ~crashed
    /\ Connected(id)
    /\ Install(onSocketMessage(ServerState, id, [k |-> "l", u |-> "alice", p |-> "pw", n |-> n]))

RoomsAdvance == AdvanceUpTo(MaxRoomsFrame)

RoomsNext ==
  \/ RoomsConnection
  \/ RoomsLogin
  \/ SocketClose
  \/ ControllerTimeout
  \/ RoomsAdvance

RoomsSpec == RoomsInit /\ [][RoomsNext]_vars

(***************************************************************************)
(* The server whose clients fall silent.  Sockets, logins, Frame messages  *)
(* and closes arrive while the past horizon is at most MaxDrainInputFrame; *)
(* the inactivity timers of the controllers that are left fire before the  *)
(* horizon moves on, and the advance timer of an instance fires as long as *)
(* it is pending.                                                          *)
(***************************************************************************)
MaxDrainControllerID == 2   \* sockets are accepted up to this ID
MaxDrainInputFrame == 17    \* clients act while the past horizon is at most this
MaxDrainFrame == 56         \* the horizon is not advanced beyond this frame

DrainInstances == {"room"}

Early == \A n \in DOMAIN instances : instances[n].pastHorizonFrameNumber <= MaxDrainInputFrame

DrainConnection == Early /\ AcceptSocket(MaxDrainControllerID)

DrainLogin == Early /\ RoomLogin

DrainFrame == Early /\ FrameMessage

DrainClose == Early /\ SocketClose

\* the inactivity timer of controller id can fire
TimeoutDue(id) ==
  /\ ~crashed
  /\ id \in DOMAIN controllers
  /\ controllers[id].timeout

DrainTimeoutOf(id) ==
  /\ TimeoutDue(id)
  /\ Install(handleControllerTimeout(ServerState, id))

DrainTimeout == \E id \in 1..MaxDrainControllerID : DrainTimeoutOf(id)

\* the advance timer of instance n can fire
AdvanceDue(n) ==
  /\ ~crashed
  /\ instances[n].advanceTimeouts > 0
  /\ instances[n].pastHorizonFrameNumber + FramesDue(n) <= MaxDrainFrame
  /\ \/ Early
     \/ \A id \in DOMAIN controllers : ~controllers[id].timeout

DrainAdvanceOf(n) ==
  /\ AdvanceDue(n)
  /\ Install(onAdvanceTimeout(AtTimeOfCalls(n, FramesDue(n)), n))

DrainAdvance == \E n \in DrainInstances : DrainAdvanceOf(n)

DrainNext ==
  \/ DrainConnection
  \/ DrainLogin
  \/ DrainFrame
  \/ DrainClose
  \/ DrainTimeout
  \/ DrainAdvance

\* setTimeout callbacks run, so a pending timer fires: weak fairness of each
\* timer's callback, WF_vars(DrainTimeoutOf(id)) and WF_vars(DrainAdvanceOf(n)),
\* written out with TimeoutDue(id) and AdvanceDue(n) for ENABLED <<..>>_vars
\* (either callback changes the state whenever it runs)
DrainSpec ==
  /\ Init
  /\ [][DrainNext]_vars
  /\ \A id \in 1..MaxDrainControllerID :
       []<>(~TimeoutDue(id)) \/ []<><<DrainTimeoutOf(id)>>_vars
  /\ \A n \in DrainInstances :
       []<>(~AdvanceDue(n)) \/ []<><<DrainAdvanceOf(n)>>_vars

(***************************************************************************)
(* The server whose users chat: a burst of two messages, and messages of   *)
(* at most two characters.                                                 *)
(***************************************************************************)
MaxChatControllerID == 3   \* sockets are accepted up to this ID
MaxChatFrame == 17         \* the horizon is not advanced beyond this frame

chatstate ==
  [serverstate EXCEPT !.config =
     [globalChatBurstSize |-> 2, maxChatMessageLength |-> 2] @@ @]

ChatInit == InitFrom(chatstate)

ChatConnection == AcceptSocket(MaxChatControllerID)

ChatStrings == {"a", "toolong"}

ChatMessage ==
  \E id \in DOMAIN controllers, m \in ChatStrings :
    /\ ~crashed
    /\ Connected(id)
    /\ Install(onSocketMessage(ServerState, id, [k |-> "g", m |-> m]))

ChatTokenTimeout ==
  \E id \in DOMAIN controllers :
    /\ ~crashed
    /\ controllers[id].chatTimeouts > 0
    /\ Install(onChatTokenTimeout(ServerState, id))

ChatAdvance == AdvanceUpTo(MaxChatFrame)

ChatNext ==
  \/ ChatConnection
  \/ RoomLogin
  \/ ChatMessage
  \/ ChatTokenTimeout
  \/ SocketClose
  \/ ChatAdvance

ChatSpec == ChatInit /\ [][ChatNext]_vars

(***************************************************************************)
(* Properties.                                                             *)
(***************************************************************************)
Live(id) == id \in DOMAIN controllers /\ controllers[id].lifecycle = "live"

NumLeq(x, y) == ~NumLess(y, x)

CommandsOf(q) == SelectSeq(q, LAMBDA e : e.k = "o")

AllEvents(n) ==
  UNION {SeqRange(instances[n].events[key]) : key \in DOMAIN instances[n].events}

\* C1: whatever the order in which the events of a frame arrived, the commands
\* advanceHorizonState passes the playset are in ascending order of controller
\* ID and, for one controller, in ascending order of serial.
C1_CommandsByControllerThenSerial ==
  \A n \in DOMAIN instances :
    LET q == instances[n].lastAdvance.commands
        e == CommandsOf(instances[n].lastAdvance.sorted)
    IN /\ Len(q) = Len(e)
       /\ \A i, j \in 1..Len(q) :
            i < j => \/ q[i].c < q[j].c
                     \/ q[i].c = q[j].c /\ e[i].s <= e[j].s

(***************************************************************************)
(* C2: when the client handles a frame-advance notice F{f}, its            *)
(* pastHorizonFrameNumber becomes f; if the notice carries a hash, the     *)
(* hash of the client's state of frame f equals it (the state equals the   *)
(* server's past-horizon state when the notice was sent) and the client    *)
(* is not closed for desynchronisation.                                    *)
(***************************************************************************)
NoticeHandled(message) == onFrameAdvanceMessage(client, message)

C2_ClientFollowsServerHorizon ==
  (client.open /\ wire # <<>> /\ Head(wire).k = "F") =>
    /\ NoticeHandled(Head(wire)).pastHorizonFrameNumber = Head(wire).f
    /\ "h" \in DOMAIN Head(wire) =>
         /\ hashGameState(NoticeHandled(Head(wire)).gameState) = Head(wire).h
         /\ NoticeHandled(Head(wire)).open

\* C3: the past horizon frame of an instance changes only in a step of the
\* advance timer, and there it grows by one for each call of
\* advanceHorizonState; no other handler changes it.
C3_HorizonAdvancesOnlyByTick ==
  [][\A n \in DOMAIN instances :
       \/ instances'[n].pastHorizonFrameNumber = instances[n].pastHorizonFrameNumber
       \/ /\ AdvanceTimeout
          /\ instances[n].advanceTimeouts > 0
          /\ instances'[n].pastHorizonFrameNumber =
               instances[n].pastHorizonFrameNumber + FramesDue(n)]_vars

C3_Witness ==
  \E n \in DOMAIN instances :
    /\ instances[n].pastHorizonFrameNumber > PAST_HORIZON_FRAMES + 1
    /\ instances[n].lastAdvance.connects # <<>>

\* C4: between handlers every stored event, and every key of the events map,
\* is at a frame that is not below the past horizon frame of its instance.
C4_EventsNotBelowHorizon ==
  \A n \in DOMAIN instances :
    LET past == Num(instances[n].pastHorizonFrameNumber) IN
    /\ \A key \in DOMAIN instances[n].events : NumLeq(past, key)
    /\ \A e \in AllEvents(n) : NumLeq(past, e.f)

ControllersIn(lifecycle) == {id \in DOMAIN controllers : controllers[id].lifecycle = lifecycle}

IndexIs(index, lifecycle) ==
  /\ \A u \in DOMAIN index :
       /\ index[u] \in ControllersIn(lifecycle)
       /\ controllers[index[u]].username = u
  /\ \A id \in ControllersIn(lifecycle) :
       /\ controllers[id].username \in DOMAIN index
       /\ index[controllers[id].username] = id

\* C5: for each username at most one controller is LIVE, at most one is INBOX
\* and at most one is OUTBOX, and the three indexes hold exactly the
\* controllers in those lifecycles.
C5_OnePerUsernameAndIndexesExact ==
  /\ IndexIs(liveControllers, "live")
  /\ IndexIs(inboxControllers, "inbox")
  /\ IndexIs(outboxControllers, "outbox")
  /\ \A lifecycle \in {"live", "inbox", "outbox"} :
       \A a, b \in ControllersIn(lifecycle) :
         controllers[a].username = controllers[b].username => a = b

C5_Witness ==
  \E u \in Usernames :
    /\ u \in DOMAIN outboxControllers
    /\ u \in DOMAIN inboxControllers

PastHorizonOf(id) == Num(InstanceOf(id).pastHorizonFrameNumber)

SentTo(R, id) == SelectSeq(R.sent, LAMBDA x : x.to = id)

KindsTo(R, id) == [j \in 1..Len(SentTo(R, id)) |-> SentTo(R, id)[j].m.k]

ErrorClosed(R, id) ==
  /\ KindsTo(R, id) = <<"E">>
  /\ id \in DOMAIN R.controllers =>
       R.controllers[id].disconnected /\ R.controllers[id].lifecycle = "outbox"

IndexesUnchanged(R) ==
  /\ R.liveControllers = liveControllers
  /\ R.inboxControllers = inboxControllers
  /\ R.outboxControllers = outboxControllers

LoginMessages ==
  {[k |-> "l", u |-> u, p |-> p, n |-> n] :
     u \in LoginNames, p \in Passwords, n \in InstanceChoices}

ValidLogin(m) ==
  /\ m.u \in DOMAIN users
  /\ doesPasswordMatchHash(m.p, users[m.u].password)
  /\ m.n \in DOMAIN instances

LoginOutcome(id, m, R) ==
  IF controllers[id].lifecycle # "new" THEN ErrorClosed(R, id)
  ELSE ValidLogin(m) =>
    IF m.u \in DOMAIN liveControllers \/ m.u \in DOMAIN inboxControllers
    THEN /\ ErrorClosed(R, id)
         /\ R.sent = <<[to |-> id,
                        m |-> [k |-> "E",
                               e |-> "you are already logged in (check other browser tabs)"]]>>
         /\ R.instances = instances
         /\ IndexesUnchanged(R)
         /\ R.controllers = Del(controllers, id)
    ELSE IF m.u \in DOMAIN outboxControllers
    THEN /\ R.sent = <<[to |-> id, m |-> [k |-> "W"]]>>
         /\ R.controllers[id].lifecycle = "inbox"
         /\ R.inboxControllers = Put(inboxControllers, m.u, id)
         /\ R.liveControllers = liveControllers
         /\ R.outboxControllers = outboxControllers
         /\ R.instances[m.n].events = instances[m.n].events
         /\ R.instances[m.n].broadcastControllers = instances[m.n].broadcastControllers
    ELSE /\ KindsTo(R, id) = <<"W", "S">>
         /\ R.controllers[id].lifecycle = "live"
         /\ R.liveControllers = Put(liveControllers, m.u, id)
         /\ id \in R.instances[m.n].broadcastControllers
         /\ \E e \in SeqRange(R.instances[m.n].events[
                     Num(getPresentFrameNumber(instances[m.n]))]) :
              e.k = "c" /\ e.c = id /\ e.u = m.u

\* C7: a login from a NEW controller with valid credentials for an existing
\* instance is error-closed without other change if the username has a LIVE
\* or INBOX controller, else makes the controller INBOX with W alone if the
\* username has an OUTBOX controller, else makes it LIVE with W then S; a
\* login from a controller that is not NEW is error-closed.
C7_LoginOutcomeByIndexes ==
  \A id \in DOMAIN controllers :
    Connected(id) =>
      \A m \in LoginMessages : LoginOutcome(id, m, onSocketMessage(ServerState, id, m))

\* a NEW controller is connected while its username has an INBOX controller
\* (waiting for an OUTBOX one) and another username has a LIVE one
C7_Witness ==
  /\ \E id \in DOMAIN controllers : Connected(id) /\ controllers[id].lifecycle = "new"
  /\ inboxControllers # EmptyMap
  /\ liveControllers # EmptyMap

DisconnectPending(id) ==
  LET instance == InstanceOf(id) IN
  \E key \in DOMAIN instance.events :
    /\ IsInteger(key)
    /\ ToInt32(key) >= instance.pastHorizonFrameNumber
    /\ \E e \in SeqRange(instance.events[key]) : e.k = "d" /\ e.c = id

HorizonBucket(n) ==
  LET key == Num(instances[n].pastHorizonFrameNumber) IN
  IF key \in DOMAIN instances[n].events THEN SeqRange(instances[n].events[key]) ELSE {}

Promoted(R, c2, e) ==
  /\ R.controllers[c2].lifecycle = "live"
  /\ KindsTo(R, c2) # <<>>
  /\ KindsTo(R, c2)[1] = "S"
  /\ LET present == Num(getPresentFrameNumber(instances[controllers[c2].instanceName]))
         stored == R.instances[controllers[c2].instanceName].events
     IN /\ NumLess(e.f, present)
        /\ present \in DOMAIN stored
        /\ \E x \in SeqRange(stored[present]) : x.k = "c" /\ x.c = c2

\* C8: an OUTBOX controller stays in the outbox index and the controllers
\* table, its Disconnect event waiting at a frame the horizon has yet to fold;
\* the advance that folds that event removes it and makes the INBOX controller
\* of the username LIVE, with a Connect event at the present frame (after the
\* Disconnect frame) and a snapshot S; and an INBOX controller exists only
\* while an OUTBOX controller of its username exists.
C8_OutboxUntilFoldThenInboxLive ==
  /\ \A u \in DOMAIN outboxControllers :
       /\ outboxControllers[u] \in DOMAIN controllers
       /\ DisconnectPending(outboxControllers[u])
  /\ \A u \in DOMAIN inboxControllers : u \in DOMAIN outboxControllers
  /\ \A n \in DOMAIN instances :
       \A e \in {x \in HorizonBucket(n) : x.k = "d"} :
         LET R == advanceHorizonState(ServerState, n)
             u == controllers[e.c].username
         IN /\ ~(e.c \in DOMAIN R.controllers)
            /\ ~(u \in DOMAIN R.outboxControllers)
            /\ u \in DOMAIN inboxControllers => Promoted(R, inboxControllers[u], e)

FrameMessages(id) ==
  {[k |-> "f", f |-> f, i |-> i] : f \in FrameNumbers(id), i \in InputStrings}

CommandMessages(id) ==
  {[k |-> "o", f |-> f, s |-> s, o |-> o, a |-> ""] :
     f \in FrameNumbers(id), s \in Serials, o \in CommandStrings}

Unchanged(R) ==
  /\ R.sent = <<>>
  /\ R.instances = instances
  /\ R.controllers = controllers
  /\ IndexesUnchanged(R)

\* C9 as the specification states it: a Frame or Command message of a LIVE
\* controller at a frame below the past horizon frame is dropped without an E
\* message and without any change of server state.
C9_LaggedMessageDropped ==
  \A id \in DOMAIN controllers :
    Live(id) =>
      \A m \in FrameMessages(id) \cup CommandMessages(id) :
        NumLess(m.f, PastHorizonOf(id)) => Unchanged(onSocketMessage(ServerState, id, m))

OutOfOrder(id, m) == NumLess(Num(ToInt32(m.f)), controllers[id].minFrameNumber)

\* C9: such a message is dropped without an E message and without any change
\* of server state when its frame is not below the controller's
\* minFrameNumber; when it is, the controller is error-closed as out of order.
C9_LaggedMessageDroppedUnlessOutOfOrder ==
  \A id \in DOMAIN controllers :
    Live(id) =>
      \A m \in FrameMessages(id) \cup CommandMessages(id) :
        NumLess(m.f, PastHorizonOf(id)) =>
          LET R == onSocketMessage(ServerState, id, m) IN
          IF OutOfOrder(id, m)
          THEN /\ ErrorClosed(R, id)
               /\ SentTo(R, id)[1].m.e = "out-of-order message"
          ELSE Unchanged(R)

C9_Witness ==
  \E id \in DOMAIN controllers :
    /\ Live(id)
    /\ \E m \in FrameMessages(id) \cup CommandMessages(id) :
         /\ NumLess(m.f, PastHorizonOf(id))
         /\ ~OutOfOrder(id, m)
         /\ Unchanged(onSocketMessage(ServerState, id, m))

RECURSIVE CountCommands(_, _)
CountCommands(events, keys) ==
  IF keys = {} THEN 0
  ELSE LET key == CHOOSE x \in keys : TRUE
       IN Len(CommandsOf(events[key])) + CountCommands(events, keys \ {key})

CommandsStored(S, n) == CountCommands(S.instances[n].events, DOMAIN S.instances[n].events)

\* the serial the handler compares with: a later frame opens a new window
LastSerial(id, m) ==
  IF NumLess(controllers[id].minFrameNumber, m.f) THEN 0
  ELSE controllers[id].lastCommandNumber

PassesOtherChecks(id, m) ==
  /\ StrLen(m.a) <= playsetArgumentLengthLimits
  /\ m.o \in DOMAIN playsetCommandRateLimits
  /\ ~(m.o \in DOMAIN controllers[id].commandRateCounters /\
       controllers[id].commandRateCounters[m.o] >= playsetCommandRateLimits[m.o])

\* C10: a Command message that passes the frame checks with serial 0, or with
\* a serial not above the last serial of the frame window, closes the
\* controller with an error and no Command event is stored or relayed for it;
\* one with the next serial that passes the other checks is admitted.
C10_BadSerialRejected ==
  \A id \in DOMAIN controllers :
    Live(id) =>
      \A m \in CommandMessages(id) :
        validateFrameOrCommandMessage(ServerState, id, m).ok =>
          LET R == onSocketMessage(ServerState, id, m)
              n == controllers[id].instanceName
          IN /\ (m.s = 0 \/ m.s <= LastSerial(id, m)) =>
                  /\ ErrorClosed(R, id)
                  /\ \A j \in 1..Len(R.sent) : R.sent[j].m.k # "o"
                  /\ CommandsStored(R, n) = CommandsStored(ServerState, n)
             /\ (m.s = LastSerial(id, m) + 1 /\ PassesOtherChecks(id, m)) =>
                  /\ R.controllers[id].lifecycle = "live"
                  /\ R.controllers[id].lastCommandNumber = m.s
                  /\ CommandsStored(R, n) = CommandsStored(ServerState, n) + 1

EventsOfKind(S, n, kind) ==
  UNION {{e \in SeqRange(S.instances[n].events[key]) : e.k = kind} :
           key \in DOMAIN S.instances[n].events}

\* C11: every key of instance.events is an integer frame number, and a Frame
\* or Command message of a LIVE controller whose frame number is not an
\* integer closes the controller with an error and stores no Frame or Command
\* event.
C11_NonIntegerFrameRejected ==
  /\ \A n \in DOMAIN instances : \A key \in DOMAIN instances[n].events : IsInteger(key)
  /\ \A id \in DOMAIN controllers :
       Live(id) =>
         \A m \in FrameMessages(id) \cup CommandMessages(id) :
           ~IsInteger(m.f) =>
             LET R == onSocketMessage(ServerState, id, m)
                 n == controllers[id].instanceName
             IN /\ ErrorClosed(R, id)
                /\ EventsOfKind(R, n, "f") = EventsOfKind(ServerState, n, "f")
                /\ EventsOfKind(R, n, "o") = EventsOfKind(ServerState, n, "o")

\* the integer frame numbers around the two ends of the admission window
WindowFrames(id) ==
  LET past == InstanceOf(id).pastHorizonFrameNumber
      present == getPresentFrameNumber(InstanceOf(id))
  IN {f \in {past - 1, past, past + 1, ToInt32(controllers[id].minFrameNumber) + 1,
             present + FUTURE_HORIZON_FRAMES, present + FUTURE_HORIZON_FRAMES + 1} :
        NumLeq(controllers[id].minFrameNumber, Num(f))}

FrameEventStored(S, n, id, f, i) ==
  /\ Num(f) \in DOMAIN S.instances[n].events
  /\ \E e \in SeqRange(S.instances[n].events[Num(f)]) :
       e.k = "f" /\ e.c = id /\ e.f = Num(f) /\ e.i = i

FrameEventFolded(S, n, id, i) ==
  /\ \E e \in SeqRange(S.instances[n].lastAdvance.sorted) :
       e.k = "f" /\ e.c = id /\ e.i = i
  /\ \E x \in SeqRange(S.instances[n].lastAdvance.inputs) : x.c = id /\ x.i = i

FirstElements(id) ==
  {[k |-> "f", f |-> f, i |-> "a"] :
     f \in IF Live(id)
           THEN {Num(InstanceOf(id).pastHorizonFrameNumber - 1), controllers[id].minFrameNumber}
           ELSE {Num(1)}}
    \cup {[k |-> "l", u |-> "alice", p |-> "pw", n |-> "room"]}

LaterElements(id) ==
  LET f == IF ~Live(id) THEN Num(1)
           ELSE IF NumLess(controllers[id].minFrameNumber, PastHorizonOf(id))
           THEN PastHorizonOf(id)
           ELSE controllers[id].minFrameNumber
  IN {[k |-> "f", f |-> f, i |-> "a"],
      [k |-> "o", f |-> f, s |-> 1, o |-> "f", a |-> ""]}

ClosedWithError(R, id) == \E j \in 1..Len(R.sent) : R.sent[j].to = id /\ R.sent[j].m.k = "E"

Array(list) == [array |-> list]

AdmittedAt(id, f, v) ==
  LET ev == InstanceOf(id).events IN
  IF f \in DOMAIN ev
  THEN Len(SelectSeq(ev[f], LAMBDA e : e.k = "o" /\ e.c = id /\ e.o = v))
  ELSE 0

RateRejected(R, id) ==
  \E j \in 1..Len(R.sent) :
    /\ R.sent[j].to = id
    /\ R.sent[j].m = [k |-> "E", e |-> "client exceeded command rate limit"]

\* the frame of the controller's window, and the frame after it
RateFrames(id) == {controllers[id].minFrameNumber, NumPlus1(controllers[id].minFrameNumber)}

\* C18: a Command of verb v at frame f from a LIVE controller, which passes
\* the frame checks, is rejected for rate exactly when as many commands of
\* verb v as the limit allows have been admitted from that controller at
\* frame f; a command at a frame above minFrameNumber is not rejected for the
\* commands of earlier frames.
C18_RateLimitPerFrame ==
  \A id \in DOMAIN controllers :
    Live(id) =>
      \A f \in RateFrames(id), v \in DOMAIN playsetCommandRateLimits :
        LET m == [k |-> "o", f |-> f, s |-> 1, o |-> v, a |-> ""] IN
        validateFrameOrCommandMessage(ServerState, id, m).ok =>
          (RateRejected(onSocketMessage(ServerState, id, m), id)
             <=> AdmittedAt(id, f, v) >= playsetCommandRateLimits[v])

StoredControllers(n) == DOMAIN JSONparse(statefile).instances[n].controllerStatus

Loaded(n) == initServer(statefile).instances[n]

\* C13: an instance loaded from a state file starts at past horizon frame 1,
\* suspended, with one Disconnect event at frame 1 for each controller of the
\* stored controllerStatus; and the first advanceHorizonState of an instance
\* loaded with a non-empty controllerStatus does not raise an exception,
\* passes exactly the stored controllers as disconnects, and leaves the
\* controller status empty and the past horizon frame 2.
C13_StoredControllersDisconnected ==
  /\ \A n \in DOMAIN JSONparse(statefile).instances :
       /\ Loaded(n).pastHorizonFrameNumber = 1
       /\ Loaded(n).suspended
       /\ DOMAIN Loaded(n).events = {Num(1)}
       /\ Len(Loaded(n).events[Num(1)]) = Cardinality(StoredControllers(n))
       /\ \A c \in StoredControllers(n) :
            [k |-> "d", c |-> c, f |-> Num(1)] \in SeqRange(Loaded(n).events[Num(1)])
  /\ \A n \in DOMAIN instances :
       (/\ instances[n].pastHorizonFrameNumber = 1
        /\ ~instances[n].suspended
        /\ instances[n].pastHorizonControllerStatus # EmptyMap)
       => LET R == advanceHorizonState(ServerState, n) IN
          /\ ~R.crashed
          /\ SeqRange(R.instances[n].lastAdvance.disconnects)
               = DOMAIN instances[n].pastHorizonControllerStatus
          /\ R.instances[n].pastHorizonControllerStatus = EmptyMap
          /\ R.instances[n].pastHorizonFrameNumber = 2

\* C15: the inputs of every advance hold one entry for each controller of the
\* controller status as it is before the disconnects of the frame are
\* removed, in ascending order of controller ID.
C15_InputsAscendingByController ==
  \A n \in DOMAIN instances :
    LET q == instances[n].lastAdvance.inputs
        ids == DOMAIN instances[n].pastHorizonControllerStatus
                 \cup SeqRange(instances[n].lastAdvance.disconnects)
    IN instances[n].lastAdvance # NoAdvance =>
         /\ Len(q) = Cardinality(ids)
         /\ {q[j].c : j \in 1..Len(q)} = ids
         /\ \A i, j \in 1..Len(q) : i < j => q[i].c < q[j].c

\* the controller IDs the server state holds
KnownIDs ==
  DOMAIN controllers
    \cup {liveControllers[u] : u \in DOMAIN liveControllers}
    \cup {inboxControllers[u] : u \in DOMAIN inboxControllers}
    \cup {outboxControllers[u] : u \in DOMAIN outboxControllers}
    \cup UNION {DOMAIN instances[n].pastHorizonControllerStatus
                  \cup instances[n].broadcastControllers
                  \cup {e.c : e \in AllEvents(n)} : n \in DOMAIN instances}

SavedIDs == UNION {StoredControllers(n) : n \in DOMAIN JSONparse(statefile).instances}

Accepted == (DOMAIN controllers') \ (DOMAIN controllers)

TickDue(n) ==
  /\ ~crashed
  /\ instances[n].advanceTimeouts > 0
  /\ now >= instances[n].pastHorizonPerfTime + PAST_HORIZON_FRAMES + 1

Idle(inst) == DOMAIN inst.events = {} /\ inst.broadcastControllers = {}

TickSuspends(n) ==
  LET R == onAdvanceTimeout(ServerState, n) IN
  (~R.crashed /\ Idle(R.instances[n])) =>
     R.instances[n].suspended /\ R.instances[n].advanceTimeouts = 0

FreshHorizon(n) ==
  IF now - PAST_HORIZON_FRAMES > instances[n].pastHorizonPerfTime
  THEN now - PAST_HORIZON_FRAMES ELSE instances[n].pastHorizonPerfTime

LoginUnsuspends(id, m) ==
  LET R == onSocketMessage(ServerState, id, m) IN
  (~R.crashed /\ id \in DOMAIN R.controllers /\
   R.controllers[id].lifecycle \in {"live", "inbox"}) =>
     /\ ~R.instances[m.n].suspended
     /\ R.instances[m.n].advanceTimeouts = 1
     /\ R.instances[m.n].pastHorizonPerfTime = FreshHorizon(m.n)

\* C14: a tick that ends its loop with no events and no subscribers suspends
\* the instance and schedules no tick, and a successful login to a suspended
\* instance unsuspends it, schedules one tick and sets pastHorizonPerfTime to
\* the larger of now - PAST_HORIZON_FRAMES*1000/FPS and the stored time.
C14_SuspendAndUnsuspend ==
  /\ \A n \in DOMAIN instances : TickDue(n) => TickSuspends(n)
  /\ \A id \in DOMAIN controllers, m \in LoginMessages :
       (~crashed /\ Connected(id) /\ m.n \in DOMAIN instances /\
        instances[m.n].suspended) => LoginUnsuspends(id, m)

\* a tick has suspended the instance, the stored time has gone stale, and a
\* socket that can log in is connected
C14_Witness ==
  \E n \in DOMAIN instances, id \in DOMAIN controllers :
    /\ ~crashed
    /\ instances[n].suspended
    /\ instances[n].pastHorizonFrameNumber > 1
    /\ now - PAST_HORIZON_FRAMES > instances[n].pastHorizonPerfTime
    /\ Connected(id)
    /\ controllers[id].lifecycle = "new"

\* the events a live subscriber of instance n has relayed at the present frame
RelayedEvents(n) ==
  {[c |-> id, f |-> Num(getPresentFrameNumber(instances[n])), k |-> "o",
    o |-> o, a |-> "", s |-> 1] :
     id \in instances[n].broadcastControllers, o \in CommandStrings}

Copies(R, id, event) ==
  Cardinality({j \in 1..Len(R.sent) :
                 R.sent[j].to = id /\ R.sent[j].m \in {event, Injected(event)}})

ErrorClosedToOutbox(R, n, x) ==
  /\ x \in DOMAIN R.controllers
  /\ R.controllers[x].lifecycle = "outbox"
  /\ R.controllers[x].disconnected
  /\ controllers[x].username \in DOMAIN R.outboxControllers
  /\ R.outboxControllers[controllers[x].username] = x
  /\ x \notin R.instances[n].broadcastControllers
  /\ \E key \in DOMAIN R.instances[n].events :
       \E e \in SeqRange(R.instances[n].events[key]) : e.k = "d" /\ e.c = x

FanOutSurvives(n, event, addTimestamp) ==
  LET R == broadcastEventToInstance(ServerState, n, event, addTimestamp)
      subscribed == instances[n].broadcastControllers
  IN /\ ~R.crashed
     /\ \A id \in subscribed :
          (id \in DOMAIN R.controllers /\ R.controllers[id].lifecycle = "live")
            => Copies(R, id, event) = 1
     /\ event.f \in DOMAIN R.instances[n].events
     /\ event \in SeqRange(R.instances[n].events[event.f])
     /\ \A x \in subscribed \cap failing : ErrorClosedToOutbox(R, n, x)

\* C16: when a send to a subscriber fails during broadcastEventToInstance,
\* every other controller that was subscribed at the start and is still live
\* is sent the event exactly once, the event is stored in the instance, and
\* the failing controller is in the outbox with its Disconnect event stored.
C16_BroadcastSurvivesSendFailure ==
  \A n \in DOMAIN instances, addTimestamp \in BOOLEAN :
    (~crashed /\ instances[n].broadcastControllers \cap failing # {}) =>
      \A event \in RelayedEvents(n) : FanOutSurvives(n, event, addTimestamp)

\* one subscriber's socket fails, another's does not, and the other is live
\* after the broadcast
C16_Witness ==
  \E n \in DOMAIN instances :
    \E x \in instances[n].broadcastControllers \cap failing,
       y \in instances[n].broadcastControllers \ failing,
       event \in RelayedEvents(n) :
      /\ ~crashed
      /\ x < y
      /\ broadcastEventToInstance(ServerState, n, event, FALSE).controllers[y].lifecycle = "live"

AnsweredWithError(R, id) ==
  \E j \in 1..Len(R.sent) : R.sent[j].to = id /\ R.sent[j].m.k = "E"

\* C19: a selfServeCreateUser request that is answered with an error leaves
\* the users table and selfServeUserCounts as they were, and is sent no D.
C19_CreateUserStopsAtError ==
  \A id \in DOMAIN controllers, m \in CreateUserMessages :
    (~crashed /\ Connected(id)) =>
      LET R == onSocketMessage(ServerState, id, m) IN
      AnsweredWithError(R, id) =>
        /\ R.users = users
        /\ R.selfServeUserCounts = selfServeUserCounts
        /\ \A j \in 1..Len(R.sent) : ~(R.sent[j].to = id /\ R.sent[j].m.k = "D")

\* the calls the playset receives in the last advance of instance n
PlaysetCalls(n) ==
  LET la == instances[n].lastAdvance IN
  defaultPlaysetAdvanceGameState(<<>>, la.connects, la.commands, la.inputs, la.disconnects)

CallOrder ==
  [applyConnect |-> 1, applyCommand |-> 2, applyControllerFrame |-> 3,
   applyStateFrame |-> 4, applyDisconnect |-> 5]

CallsTo(calls, call) == {j \in 1..Len(calls) : calls[j].call = call}

\* the Disconnect events of controller c that instance n stores
DisconnectFrames(n, c) ==
  {key \in DOMAIN instances[n].events :
     \E e \in SeqRange(instances[n].events[key]) : e.k = "d" /\ e.c = c}

\* C21: an advance calls applyConnect for every connect, applyCommand for
\* every command, applyControllerFrame once for every controller of the
\* controller status, applyStateFrame once and applyDisconnect for every
\* disconnect, in this order; and no controller gets applyControllerFrame at a
\* frame after the frame of its Disconnect event.
C21_PlaysetCallsInOrder ==
  \A n \in DOMAIN instances :
    (~crashed /\ instances[n].lastAdvance # NoAdvance) =>
      LET calls == PlaysetCalls(n)
          la == instances[n].lastAdvance
          frame == instances[n].pastHorizonFrameNumber - 1
          status == DOMAIN instances[n].pastHorizonControllerStatus
                      \cup SeqRange(la.disconnects)
      IN /\ \A i, j \in 1..Len(calls) :
              i < j => CallOrder[calls[i].call] <= CallOrder[calls[j].call]
         /\ Cardinality(CallsTo(calls, "applyConnect")) = Len(la.connects)
         /\ Cardinality(CallsTo(calls, "applyCommand")) = Len(la.commands)
         /\ Cardinality(CallsTo(calls, "applyDisconnect")) = Len(la.disconnects)
         /\ Cardinality(CallsTo(calls, "applyStateFrame")) = 1
         /\ \A c \in status :
              Cardinality({j \in CallsTo(calls, "applyControllerFrame") : calls[j].c = c}) = 1
         /\ \A j \in CallsTo(calls, "applyControllerFrame") :
              /\ calls[j].c \in status
              /\ \A key \in DisconnectFrames(n, calls[j].c) : ~NumLess(key, Num(frame))

\* the frames of the Connect events of controller c that instance n stores
ConnectFrames(n, c) ==
  {key \in DOMAIN instances[n].events :
     \E e \in SeqRange(instances[n].events[key]) : e.k = "c" /\ e.c = c}

\* the stored Frame and Command events of a controller lie between its stored
\* Connect and Disconnect events
StoredWithinLifetime(n) ==
  \A key \in DOMAIN instances[n].events :
    \A e \in SeqRange(instances[n].events[key]) :
      e.k \in {"f", "o"} =>
        /\ \A first \in ConnectFrames(n, e.c) : NumLeq(first, key)
        /\ \A last \in DisconnectFrames(n, e.c) : NumLeq(key, last)

\* a controller that has been disconnected stores nothing more
StoresNothingMore(id) ==
  \A m \in FrameMessages(id) \cup CommandMessages(id) :
    onSocketMessage(ServerState, id, m).instances = instances

\* the controller IDs the playset is passed in the last advance of instance n
SeenByPlayset(n) ==
  LET la == instances[n].lastAdvance IN
  {la.connects[j].c : j \in 1..Len(la.connects)}
    \cup {la.commands[j].c : j \in 1..Len(la.commands)}
    \cup {la.inputs[j].c : j \in 1..Len(la.inputs)}
    \cup SeqRange(la.disconnects)

\* C22: the Frame and Command events a controller has stored lie between the
\* frames of its Connect and its Disconnect event, nothing of a controller is
\* stored after its Disconnect, and the playset is passed a controller ID at
\* no frame before its Connect frame or after its Disconnect frame.
C22_EventsWithinConnectAndDisconnect ==
  /\ \A n \in DOMAIN instances : StoredWithinLifetime(n)
  /\ \A id \in DOMAIN controllers :
       (~crashed /\ controllers[id].lifecycle = "outbox") => StoresNothingMore(id)
  /\ \A n \in DOMAIN instances :
       (~crashed /\ instances[n].lastAdvance # NoAdvance) =>
         \A c \in SeenByPlayset(n) :
           /\ c \in DOMAIN instances[n].pastHorizonControllerStatus
                     \cup SeqRange(instances[n].lastAdvance.disconnects)
           /\ \A first \in ConnectFrames(n, c) :
                NumLess(Num(instances[n].pastHorizonFrameNumber - 1), first)
           /\ \A last \in DisconnectFrames(n, c) :
                NumLeq(Num(instances[n].pastHorizonFrameNumber - 1), last)

\* the events of the horizon frame that advanceHorizonState folds into the
\* state of the next frame: what is left of instanceEvents[n] after the
\* pruning step
FoldedEvents(C) ==
  IF Num(C.pastHorizonFrameNumber) \in DOMAIN C.instanceEvents
  THEN pruneUnackedEvents(C).instanceEvents[Num(C.pastHorizonFrameNumber)]
  ELSE <<>>

\* some call of advanceHorizonState in the loop of a frame-advance notice for
\* frame f folds an event that is still unacked
RECURSIVE FoldsUnacked(_, _)
FoldsUnacked(C, f) ==
  IF C.thrown \/ C.pastHorizonFrameNumber >= f THEN FALSE
  ELSE \/ \E j \in 1..Len(FoldedEvents(C)) : Unacked(FoldedEvents(C)[j])
       \/ FoldsUnacked(clientAdvanceHorizonState(C), f)

\* C23: when the client handles a frame-advance notice, no call of
\* advanceHorizonState folds an event that is still marked unacked: the own
\* unacked events of the horizon frame are removed before the next state is
\* computed, also while the client's own Connect is not yet folded.
C23_NoUnackedEventFolded ==
  (client.open /\ client.playing /\ wire # <<>> /\ Head(wire).k = "F") =>
    ~FoldsUnacked(client, Head(wire).f)

\* the messages of kind F among what a handler has sent to socket id
NoticesTo(R, id) ==
  SelectSeq(R.sent, LAMBDA x : x.to = id /\ x.m.k = "F")

\* the hash notice of the frame instance n has reached
HashNotice(R, n) ==
  [k |-> "F", h |-> hashGameState(R.instances[n].pastHorizonState),
   f |-> R.instances[n].pastHorizonFrameNumber]

\* what one call of advanceHorizonState has sent, by the frame it has reached
HashNoticeOnFifthFrames(R, n) ==
  (~R.crashed) =>
    \A id \in R.instances[n].broadcastControllers :
      IF R.instances[n].pastHorizonFrameNumber % 5 = 0
      THEN NoticesTo(R, id) = <<[to |-> id, m |-> HashNotice(R, n)]>>
      ELSE NoticesTo(R, id) = <<>>

SentHashNoticeOfSix(R, id) ==
  \E j \in 1..Len(NoticesTo(R, id)) :
    NoticesTo(R, id)[j].m.f = 6 /\ "h" \in DOMAIN NoticesTo(R, id)[j].m

RECURSIVE ConfirmationsOf(_, _)
ConfirmationsOf(C, f) ==
  IF C.thrown \/ C.pastHorizonFrameNumber >= f THEN <<>>
  ELSE <<clientAdvanceHorizonState(C).confirmed>>
         \o ConfirmationsOf(clientAdvanceHorizonState(C), f)

\* the frames from the one after the horizon frame up to f, in order
FramesUpTo(C, f) ==
  [j \in 1..(IF f > C.pastHorizonFrameNumber THEN f - C.pastHorizonFrameNumber ELSE 0)
     |-> C.pastHorizonFrameNumber + j]

\* C25: handleClientConfirmation is called once for the snapshot frame when
\* the snapshot is handled, then once for each following frame in consecutive
\* increasing order: a frame-advance notice for frame f makes one call for
\* each frame from the one after the horizon frame up to f, however many
\* frames it advances, and no other handler makes a call; between handlers
\* the last frame confirmed is the client's horizon frame.
C25_ConfirmationOncePerFrameInOrder ==
  /\ [](client.confirmed = client.pastHorizonFrameNumber)
  /\ []((client.open /\ wire # <<>> /\ Head(wire).k = "F") =>
          ConfirmationsOf(client, Head(wire).f) = FramesUpTo(client, Head(wire).f))
  /\ []((client.open /\ wire # <<>> /\ Head(wire).k = "S") =>
          onInitialStateMessage(client, Head(wire)).confirmed = Head(wire).f)
  /\ [][client'.confirmed # client.confirmed =>
          /\ ClientReceive
          /\ Head(wire).k \in {"S", "F"}]_vars

\* a notice that advances the horizon by several frames is the next message
\* of a client that has handled its snapshot
C25_Witness ==
  /\ client.open
  /\ client.playing
  /\ client.confirmed > 0
  /\ wire # <<>>
  /\ Head(wire).k = "F"
  /\ Head(wire).f > client.pastHorizonFrameNumber + 1

\* the frames a game frame timer that finds the present frame to be frame
\* passes: the skipped ones and frame itself
FramesPassed(frame) == client.expectedFrameNumber..frame

\* C26: a game frame timer calls handleClientPrediction with frameNumber = n
\* and the estimated state of frame n for every frame n it passes, the
\* frames it skips without sending input included.
C26_PredictionForEveryFrame ==
  \A frame \in {client.expectedFrameNumber, client.expectedFrameNumber + 1} :
    (client.open /\ client.playing /\ frame >= client.pastHorizonFrameNumber) =>
      \A n \in FramesPassed(frame) :
        \E j \in 1..Len(onGameFrameTimeout(client, frame, "a").predicted) :
          onGameFrameTimeout(client, frame, "a").predicted[j] =
            [state |-> getEstimatedGameState(client, n), frameNumber |-> n]

\* how many events stored at key of instance n are like e: of its kind, from
\* its controller and, for a Command, with its serial
StoredLike(n, key, e) ==
  Cardinality({j \in 1..Len(instances[n].events[key]) :
                 /\ instances[n].events[key][j].k = e.k
                 /\ instances[n].events[key][j].c = e.c
                 /\ e.k = "o" => instances[n].events[key][j].s = e.s})

\* C27: no instance stores two events of one kind from one controller at one
\* frame with, for Commands, one serial; and a controller has at most one
\* stored Connect and at most one stored Disconnect event.
C27_NoDuplicateEvents ==
  \A n \in DOMAIN instances :
    /\ \A key \in DOMAIN instances[n].events :
         \A e \in SeqRange(instances[n].events[key]) : StoredLike(n, key, e) = 1
    /\ \A c \in 1..nextControllerID :
         /\ Cardinality(ConnectFrames(n, c)) <= 1
         /\ Cardinality(DisconnectFrames(n, c)) <= 1

\* Frame and Command messages at the frame of the controller's window, at
\* the next frame and in between
WindowMessages(id) ==
  LET frames == {controllers[id].minFrameNumber, NumPlus1(controllers[id].minFrameNumber),
                 Half(ToInt32(controllers[id].minFrameNumber))}
  IN {[k |-> "f", f |-> f, i |-> i] : f \in frames, i \in InputStrings}
       \cup {[k |-> "o", f |-> f, s |-> s, o |-> o, a |-> ""] :
               f \in frames, s \in Serials, o \in CommandStrings}

EventsAt(S, n, key) ==
  IF key \in DOMAIN S.instances[n].events THEN S.instances[n].events[key] ELSE <<>>

\* the handler has stored the event of message m
Admits(R, id, m) ==
  /\ Len(EventsAt(R, controllers[id].instanceName, m.f))
       = Len(EventsAt(ServerState, controllers[id].instanceName, m.f)) + 1
  /\ LET e == EventsAt(R, controllers[id].instanceName, m.f)[
                Len(EventsAt(R, controllers[id].instanceName, m.f))]
     IN e.k = m.k /\ e.c = id /\ e.f = m.f

Counted(counters, verb) == IF verb \in DOMAIN counters THEN counters[verb] ELSE 0

\* what admitting m has done to the controller
AdmissionEffect(R, id, m) ==
  Admits(R, id, m) =>
    /\ id \in DOMAIN R.controllers
    /\ NumLeq(controllers[id].minFrameNumber, m.f)
    /\ m.k = "f" =>
         /\ R.controllers[id].minFrameNumber = NumPlus1(m.f)
         /\ R.controllers[id].lastCommandNumber = 0
         /\ R.controllers[id].commandRateCounters = EmptyMap
    /\ (m.k = "o" /\ NumLess(controllers[id].minFrameNumber, m.f)) =>
         /\ R.controllers[id].minFrameNumber = m.f
         /\ R.controllers[id].lastCommandNumber = m.s
         /\ R.controllers[id].commandRateCounters = Put(EmptyMap, m.o, 1)
    /\ (m.k = "o" /\ controllers[id].minFrameNumber = m.f) =>
         /\ R.controllers[id].minFrameNumber = m.f
         /\ R.controllers[id].lastCommandNumber = m.s
         /\ \A verb \in DOMAIN playsetCommandRateLimits :
              Counted(R.controllers[id].commandRateCounters, verb) =
                Counted(controllers[id].commandRateCounters, verb)
                  + (IF verb = m.o THEN 1 ELSE 0)

\* the stored Frame events of a controller lie below its minFrameNumber, its
\* stored Command events not above it
StoredBelowWindow(n) ==
  \A key \in DOMAIN instances[n].events :
    \A e \in SeqRange(instances[n].events[key]) :
      (e.k \in {"f", "o"} /\ e.c \in DOMAIN controllers) =>
        IF e.k = "f" THEN NumLess(key, controllers[e.c].minFrameNumber)
        ELSE NumLeq(key, controllers[e.c].minFrameNumber)

InputMessages(id) ==
  {[k |-> "f", f |-> f, i |-> i] : f \in FrameNumbers(id), i \in RelayInputs}

\* how many times a handler has sent msg to socket x
SentCount(R, x, msg) ==
  Cardinality({j \in 1..Len(R.sent) : R.sent[j].to = x /\ R.sent[j].m = msg})

\* the frames before key that instance n will fold a Frame event of controller c at
FoldedFramesBefore(n, c, key) ==
  {x \in DOMAIN instances[n].events :
     /\ IsInteger(x)
     /\ NumLeq(Num(instances[n].pastHorizonFrameNumber), x)
     /\ NumLess(x, key)
     /\ \E e \in SeqRange(instances[n].events[x]) : e.k = "f" /\ e.c = c}

\* the input of the Frame event of controller c stored at key
InputAt(n, c, key) ==
  (CHOOSE e \in SeqRange(instances[n].events[key]) : e.k = "f" /\ e.c = c).i

\* the input the server has folded for controller c when it comes to fold frame key
FoldedInputBefore(n, c, key) ==
  IF FoldedFramesBefore(n, c, key) # {}
  THEN InputAt(n, c, CHOOSE x \in FoldedFramesBefore(n, c, key) :
                       \A y \in FoldedFramesBefore(n, c, key) : NumLeq(y, x))
  ELSE IF c \in DOMAIN instances[n].pastHorizonControllerStatus
  THEN instances[n].pastHorizonControllerStatus[c].i
  ELSE ""

\* what admitting the Frame message m of controller id in instance n has sent
RelayEffect(R, n, id, m) ==
  Admits(R, id, m) =>
    /\ SentCount(R, id, [c |-> id, f |-> m.f, k |-> "f", i |-> m.i, t |-> TRUE]) = 1
    /\ \A x \in instances[n].broadcastControllers \ {id} :
         SentCount(R, x, [c |-> id, f |-> m.f, k |-> "f", i |-> m.i])
           = IF m.i # controllers[id].lastFrameInput THEN 1 ELSE 0
    /\ m.i = controllers[id].lastFrameInput => FoldedInputBefore(n, id, m.f) = m.i

\* the frames instance n has a Frame event of controller c stored at
FrameEventFrames(n, c) ==
  {x \in DOMAIN instances[n].events :
     \E e \in SeqRange(instances[n].events[x]) : e.k = "f" /\ e.c = c}

\* lastFrameInput is the input of the last Frame event admitted
LastInputKept(id) ==
  \A x \in FrameEventFrames(controllers[id].instanceName, id) :
    (\A y \in FrameEventFrames(controllers[id].instanceName, id) : NumLeq(y, x)) =>
      InputAt(controllers[id].instanceName, id, x) = controllers[id].lastFrameInput

\* C29: an admitted Frame event is stored and echoed once to its sender with
\* the timing pong t; every other subscriber is sent it once if its input
\* differs from the input of the last Frame event admitted from the
\* controller (which lastFrameInput keeps) and not at all if it is equal; and
\* when the relay is suppressed the input the server has folded for the
\* controller when it reaches the event's frame is already the event's input,
\* so a subscriber that folds the relayed events alone has the same input.
C29_FrameRelayedIffInputChanged ==
  \A id \in DOMAIN controllers :
    (~crashed /\ Live(id)) =>
      /\ LastInputKept(id)
      /\ \A m \in InputMessages(id) :
           RelayEffect(onSocketMessage(ServerState, id, m), controllers[id].instanceName, id, m)

\* the notices F one call of advanceHorizonState is to send each subscriber,
\* by the frame the call has reached
NoticesDue(R, n) ==
  IF R.instances[n].pastHorizonFrameNumber % HashSyncInterval(R) = 0
  THEN <<HashNotice(R, n)>>
  ELSE IF (4 * R.instances[n].pastHorizonFrameNumber) % FPS = 0
  THEN <<[k |-> "F", f |-> R.instances[n].pastHorizonFrameNumber]>>
  ELSE <<>>

NoticeOnSchedule(R, n) ==
  (~R.crashed) =>
    \A id \in R.instances[n].broadcastControllers :
      NoticesTo(R, id) = [j \in 1..Len(NoticesDue(R, n)) |-> [to |-> id, m |-> NoticesDue(R, n)[j]]]

\* the notices F of one advance timer have growing frame numbers, all above
\* the frame the instance was at
NoticesGrow(R, n) ==
  \A id \in DOMAIN controllers :
    /\ \A j \in 1..Len(NoticesTo(R, id)) :
         NoticesTo(R, id)[j].m.f > instances[n].pastHorizonFrameNumber
    /\ \A j \in 1..(Len(NoticesTo(R, id)) - 1) :
         NoticesTo(R, id)[j].m.f < NoticesTo(R, id)[j + 1].m.f

C31_OneAdvanceTimerIffRunning ==
  \A n \in DOMAIN instances :
    (~crashed) =>
      instances[n].advanceTimeouts = IF instances[n].suspended THEN 0 ELSE 1

\* an instance that had been suspended by a tick runs again, while another is
\* suspended
C31_Witness ==
  \E n \in DOMAIN instances, other \in DOMAIN instances :
    /\ ~crashed
    /\ ~instances[n].suspended
    /\ instances[n].pastHorizonFrameNumber > 1
    /\ instances[n].broadcastControllers # {}
    /\ instances[other].suspended
    /\ instances[other].pastHorizonFrameNumber > 1

\* C32: an instance with a subscribed controller is not suspended and has a
\* tick scheduled, whichever path subscribed the controller.
C32_SubscribedInstanceRuns ==
  \A n \in DOMAIN instances :
    (~crashed /\ instances[n].broadcastControllers # {}) =>
      /\ ~instances[n].suspended
      /\ instances[n].advanceTimeouts > 0

\* the number of frames a tick of instance n would advance now
FramesBehind(n) ==
  IF now >= instances[n].pastHorizonPerfTime + PAST_HORIZON_FRAMES + 1
  THEN now - (instances[n].pastHorizonPerfTime + PAST_HORIZON_FRAMES + 1) + 1
  ELSE 0

\* right after unsuspendInstance the time of the past horizon is at most
\* PAST_HORIZON_FRAMES frame times old, and no frame is due
FreshAfterUnsuspend(R, n) ==
  /\ R.now - R.instances[n].pastHorizonPerfTime <= PAST_HORIZON_FRAMES
  /\ CallsDue(R, n) = 0

\* right after a tick no frame is due
CaughtUpAfterTick(R, n) ==
  (~R.crashed) =>
    R.now < R.instances[n].pastHorizonPerfTime + PAST_HORIZON_FRAMES + 1

\* C33: right after unsuspendInstance has unsuspended an instance,
\* now - pastHorizonPerfTime <= PAST_HORIZON_FRAMES*1000/FPS; right after a
\* tick, now < pastHorizonPerfTime + (PAST_HORIZON_FRAMES+1)*1000/FPS; and in
\* every step the number of frames due grows by no more than the time that
\* passes in the step.  So a tick advances no more frames than the frame
\* times elapsed since the last tick or unsuspension, however long the
\* instance had been suspended.
C33_NoBurstCatchUp ==
  /\ [](\A n \in DOMAIN instances :
          (~crashed /\ instances[n].suspended) =>
            FreshAfterUnsuspend(unsuspendInstance(ServerState, n), n))
  /\ [](\A n \in DOMAIN instances :
          TickDue(n) => CaughtUpAfterTick(onAdvanceTimeout(ServerState, n), n))
  /\ [][\A n \in DOMAIN instances :
          FramesBehind(n)' <= FramesBehind(n) + (now' - now)]_vars

\* an instance has been suspended for several frame times
C33_Witness ==
  \E n \in DOMAIN instances :
    /\ ~crashed
    /\ instances[n].suspended
    /\ instances[n].pastHorizonFrameNumber > 1
    /\ FramesBehind(n) >= 3

\* C34: between handlers a controller has an armed inactivity timer only if
\* its lifecycle is new or live: a controller in the inbox or in the outbox
\* has none, whichever handler put it there.
C34_TimerOnlyWhenNewOrLive ==
  \A id \in DOMAIN controllers :
    (~crashed /\ controllers[id].timeout) =>
      controllers[id].lifecycle \in {"new", "live"}

\* the first loop of advanceHorizonState on the bucket of the past horizon
\* frame of instance n in state S
HorizonFold(S, n) ==
  FoldEvents([status |-> S.instances[n].pastHorizonControllerStatus,
              connects |-> <<>>, commands |-> <<>>,
              disconnects |-> <<>>, thrown |-> FALSE],
             SortEvents(EventsAt(S, n, Num(S.instances[n].pastHorizonFrameNumber))))

\* one of the next k calls of advanceHorizonState for instance n throws the
\* event order invariant violation
RECURSIVE FoldThrows(_, _, _)
FoldThrows(S, n, k) ==
  IF k = 0 \/ S.crashed THEN FALSE
  ELSE IF HorizonFold(S, n).thrown THEN TRUE
  ELSE FoldThrows(advanceHorizonState(S, n), n, k - 1)

\* a Frame event of controller c stored for frame key can be folded: c is
\* in the controller status or its Connect event is stored for that frame
\* or an earlier one, and its Disconnect event is stored for no earlier one
FrameFoldable(n, key, c) ==
  /\ \/ c \in DOMAIN instances[n].pastHorizonControllerStatus
     \/ \E k2 \in DOMAIN instances[n].events :
          /\ NumLeq(k2, key)
          /\ \E j \in DOMAIN instances[n].events[k2] :
               instances[n].events[k2][j].k = "c" /\ instances[n].events[k2][j].c = c
  /\ \A k2 \in DOMAIN instances[n].events :
       NumLess(k2, key) =>
         \A j \in DOMAIN instances[n].events[k2] :
           ~(instances[n].events[k2][j].k = "d" /\ instances[n].events[k2][j].c = c)

SnapshotConsistent(m) ==
  /\ deserializeGameState(m.g).frames = m.f - 1
  /\ DOMAIN m.x = deserializeGameState(m.g).connected
  /\ \A i \in DOMAIN m.e : NumLeq(Num(m.f), m.e[i].f)
  /\ \E i \in DOMAIN m.e : m.e[i].k = "c" /\ m.e[i].c = m.c

\* every snapshot the handler sent is consistent
SnapshotsConsistent(R) ==
  \A j \in DOMAIN R.sent :
    R.sent[j].m.k = "S" => SnapshotConsistent(R.sent[j].m)

\* C36: every initial snapshot S the server sends is consistent: g is the
\* state that folded exactly the frames below f, x the controller status
\* after those frames, and e holds stored events of frame f or later, the
\* recipient's Connect event included; for the snapshot of a direct login
\* and for the snapshot of a controller promoted in the middle of an advance.
C36_SnapshotConsistent ==
  /\ \A id \in DOMAIN controllers :
       (~crashed /\ Connected(id)) =>
         \A m \in LoginMessages :
           SnapshotsConsistent(onSocketMessage(ServerState, id, m))
  /\ \A n \in DOMAIN instances :
       (~crashed /\ instances[n].advanceTimeouts > 0) =>
         SnapshotsConsistent(onAdvanceTimeout(AtTimeOfCalls(n, FramesDue(n)), n))

\* the first loop of the client's computeGameStateGivenPrevious on the
\* controller status and the events the server holds for its past horizon
\* frame
ClientHorizonFold(S, n) ==
  ClientFoldEvents([status |-> S.instances[n].pastHorizonControllerStatus,
                    connects |-> <<>>, commands |-> <<>>,
                    disconnects |-> <<>>, thrown |-> FALSE],
                   SortEvents(EventsAt(S, n, Num(S.instances[n].pastHorizonFrameNumber))))

\* two folds give playset.advanceGameState the same four lists
SameLists(bySrv, byCli) ==
  /\ bySrv.thrown = byCli.thrown
  /\ bySrv.connects = byCli.connects
  /\ bySrv.commands = byCli.commands
  /\ BuildInputs(bySrv.status) = BuildInputs(byCli.status)
  /\ bySrv.disconnects = byCli.disconnects

\* C37: on the same controller status and the same events of a frame, the
\* client's computeGameStateGivenPrevious passes playset.advanceGameState
\* the same connects, commands (with each command's argument a), inputs and
\* disconnects, in the same order, as the server's advanceHorizonState.
C37_ClientFoldsAsServer ==
  \A n \in DOMAIN instances :
    (~crashed) => SameLists(HorizonFold(ServerState, n), ClientHorizonFold(ServerState, n))

EventKinds == {"c", "o", "f", "d"}

\* a relayed event without the timing pong the sender's copy carries
Untimed(m) == [x \in DOMAIN m \ {"t"} |-> m[x]]

\* how many times the handler has relayed event e to socket id
RelayedCount(R, id, e) ==
  Cardinality({j \in 1..Len(R.sent) :
                 /\ R.sent[j].to = id
                 /\ R.sent[j].m.k \in EventKinds
                 /\ Untimed(R.sent[j].m) = e})

\* the snapshots the handler has sent to socket id
SnapshotsTo(R, id) == SelectSeq(R.sent, LAMBDA x : x.to = id /\ x.m.k = "S")

\* how many times event e is in the list e of snapshot m
SnapshotCount(m, e) == Cardinality({i \in DOMAIN m.e : m.e[i] = e})

\* how many times event e is stored in instance n
StoredCount(S, n, e) ==
  Cardinality({i \in DOMAIN EventsAt(S, n, e.f) : EventsAt(S, n, e.f)[i] = e})

StoredIn(S, n) ==
  UNION {SeqRange(S.instances[n].events[key]) : key \in DOMAIN S.instances[n].events}

\* how many times the handler has stored event e in instance n
Added(R, n, e) ==
  IF StoredCount(R, n, e) > StoredCount(ServerState, n, e)
  THEN StoredCount(R, n, e) - StoredCount(ServerState, n, e) ELSE 0

\* how many times event e is or was stored in instance n
Held(R, n, e) ==
  IF StoredCount(R, n, e) > StoredCount(ServerState, n, e)
  THEN StoredCount(R, n, e) ELSE StoredCount(ServerState, n, e)

\* the events the handler had or has stored in instance n or has sent to id
EventsSeen(R, n, id) ==
  StoredIn(ServerState, n) \cup StoredIn(R, n)
    \cup {Untimed(R.sent[j].m) :
            j \in {x \in 1..Len(R.sent) : R.sent[x].to = id /\ R.sent[x].m.k \in EventKinds}}
    \cup UNION {SeqRange(SnapshotsTo(R, id)[j].m.e) : j \in 1..Len(SnapshotsTo(R, id))}

\* a Frame event of another controller that repeats that controller's input
RepeatedInput(id, e) ==
  /\ e.k = "f"
  /\ e.c # id
  /\ e.c \in DOMAIN controllers
  /\ e.i = controllers[e.c].lastFrameInput

\* id is subscribed to instance n before and after the handler: it is
\* relayed each event the handler stores in n once, bar repeated inputs
RelayedWhileLive(R, n, id) ==
  /\ SnapshotsTo(R, id) = <<>>
  /\ \A e \in EventsSeen(R, n, id) :
       RelayedCount(R, id, e) = IF RepeatedInput(id, e) THEN 0 ELSE Added(R, n, e)

\* the handler has subscribed id to instance n: one snapshot, and each event
\* of frame f or later is in its list e or relayed, once for each time it is
\* or was stored
CoveredFromSnapshot(R, n, id) ==
  /\ Len(SnapshotsTo(R, id)) = 1
  /\ \A e \in EventsSeen(R, n, id) :
       IF NumLeq(Num(SnapshotsTo(R, id)[1].m.f), e.f)
       THEN SnapshotCount(SnapshotsTo(R, id)[1].m, e) + RelayedCount(R, id, e)
              = Held(R, n, e)
       ELSE RelayedCount(R, id, e) = 0

\* id is not subscribed to n after the handler: it was relayed no event that
\* the handler did not store, none at all if it was not subscribed before,
\* and in no case its own Disconnect event
SilentAfterLive(R, n, id) ==
  /\ \A e \in EventsSeen(R, n, id) :
       /\ RelayedCount(R, id, e) <= Added(R, n, e)
       /\ id \notin instances[n].broadcastControllers => RelayedCount(R, id, e) = 0
       /\ (e.k = "d" /\ e.c = id) => RelayedCount(R, id, e) = 0

\* what a handler has sent each controller of the events of each instance
EachEventOnce(R) ==
  (~R.crashed) =>
    \A n \in DOMAIN instances :
      \A id \in DOMAIN controllers :
        IF id \in R.instances[n].broadcastControllers
        THEN IF id \in instances[n].broadcastControllers
             THEN RelayedWhileLive(R, n, id)
             ELSE CoveredFromSnapshot(R, n, id)
        ELSE SilentAfterLive(R, n, id)

\* C38: a controller that becomes and stays live receives every Connect,
\* Command, Disconnect and input-changing Frame event stored in its instance
\* with frame >= the f of its snapshot exactly once, in the list e of the
\* snapshot if it was stored before the snapshot was built and as a relayed
\* message otherwise; a controller that is no longer live is relayed nothing,
\* not even its own Disconnect event.  Stated for each handler: a login, a
\* Frame or Command message, a close, an inactivity timeout and a tick.
C38_EachEventOnce ==
  /\ \A id \in DOMAIN controllers :
       (~crashed /\ Connected(id)) =>
         /\ \A m \in LoginMessages \cup FrameMessages(id) \cup CommandMessages(id) :
              EachEventOnce(onSocketMessage(ServerState, id, m))
         /\ EachEventOnce(onSocketClose(ServerState, id))
         /\ controllers[id].timeout =>
              EachEventOnce(handleControllerTimeout(ServerState, id))
  /\ \A n \in DOMAIN instances :
       (~crashed /\ instances[n].advanceTimeouts > 0) =>
         EachEventOnce(onAdvanceTimeout(AtTimeOfCalls(n, FramesDue(n)), n))

\* instance n loses events only to the advance of their frame, which passes
\* the playset each of them
RemovedByOwnFold(n) ==
  \A key \in DOMAIN instances[n].events :
    (key \notin DOMAIN instances'[n].events
       \/ instances'[n].events[key] # instances[n].events[key]) =>
      \/ /\ key \in DOMAIN instances'[n].events
         /\ Len(instances'[n].events[key]) > Len(instances[n].events[key])
         /\ SubSeq(instances'[n].events[key], 1, Len(instances[n].events[key]))
              = instances[n].events[key]
      \/ /\ key \notin DOMAIN instances'[n].events
         /\ NumLess(key, Num(instances'[n].pastHorizonFrameNumber))
         /\ \/ instances[n].events[key] = <<>>
            \/ /\ key = Num(instances'[n].pastHorizonFrameNumber - 1)
               /\ instances'[n].lastAdvance.sorted = SortEvents(instances[n].events[key])

\* no instance holds an event or has a subscriber, and all are suspended
AllQuiet ==
  \A n \in DOMAIN instances :
    /\ instances[n].suspended
    /\ instances[n].broadcastControllers = {}
    /\ \A key \in DOMAIN instances[n].events : instances[n].events[key] = <<>>

\* the advance of its frame is still to come for every event instance n holds
NoneLeftBehind(n) ==
  \A key \in DOMAIN instances[n].events :
    instances[n].events[key] # <<>> =>
      ~NumLess(key, Num(instances[n].pastHorizonFrameNumber))

\* C39: when timers fire fairly, an event stored in an instance is held until
\* the advance of its frame, which passes it to the playset, and leaves the
\* events map only then; and once the clients have fallen silent every
\* instance comes to hold no events, to have no subscribers and to be
\* suspended, for good.
C39_EventsDrainAndInstanceSuspends ==
  /\ [](\A n \in DOMAIN instances : NoneLeftBehind(n))
  /\ [][\A n \in DOMAIN instances : RemovedByOwnFold(n)]_vars
  /\ <>[]AllQuiet

\* the chat messages the handler has sent to socket x
ChatsTo(R, x) == SelectSeq(R.sent, LAMBDA y : y.to = x /\ y.m.k = "g")

\* the chat message of controller id is refused: the controller is closed
\* with an error, and nobody is sent the message
ChatRefused(R, id) ==
  /\ KindsTo(R, id) = <<"E">>
  /\ id \in DOMAIN R.controllers =>
       R.controllers[id].disconnected /\ R.controllers[id].lifecycle = "outbox"
  /\ \A x \in DOMAIN controllers : ChatsTo(R, x) = <<>>

\* the chat message m of controller id is relayed once to each live controller
ChatRelayed(R, id, m) ==
  \A x \in DOMAIN controllers :
    ChatsTo(R, x) =
      IF Live(x)
      THEN <<[to |-> x, m |-> [k |-> "g", c |-> id, u |-> controllers[id].username, m |-> m]]>>
      ELSE <<>>

ChatOutcome(R, id, m) ==
  IF ~Live(id) \/ controllers[id].globalChatTokens = 0
  THEN ChatRefused(R, id)
  ELSE ChatRelayed(R, id, m)

\* C40: a live controller has between 0 and the burst size of chat tokens,
\* and its tokens and its pending replenishment timers add up to the burst
\* size; a global chat message from a controller that is not live or has no
\* token closes it with an error and is relayed to nobody, and an accepted
\* one is relayed to every live controller of the server.
C40_ChatTokens ==
  /\ \A id \in DOMAIN controllers :
       (~crashed /\ Live(id)) =>
         /\ controllers[id].globalChatTokens \in 0..ChatBurstSize(ServerState)
         /\ controllers[id].globalChatTokens + controllers[id].chatTimeouts
              = ChatBurstSize(ServerState)
  /\ \A id \in DOMAIN controllers :
       (~crashed /\ Connected(id)) =>
         ChatOutcome(onSocketMessage(ServerState, id, [k |-> "g", m |-> "a"]), id, "a")

\* a live controller has spent its burst while another controller is live
C40_Witness ==
  \E id \in DOMAIN controllers, x \in DOMAIN controllers :
    /\ ~crashed
    /\ id # x
    /\ Live(id) /\ Live(x)
    /\ controllers[id].globalChatTokens = 0
    /\ controllers[id].chatTimeouts = 2
    /\ controllers[x].globalChatTokens = 1

====
